---- MODULE Spec2Model ----
(***************************************************************************)
(* Superlative eligibility and unlocking engine of the game-rating site    *)
(* (src/database.py): rating store, currency ledger (review points),       *)
(* unlock ledger with slot capacity, random unlock purchase.               *)
(*                                                                         *)
(* Conventions.  Scores are kept in tenths (9.5 is 95), since the site     *)
(* stores one decimal.  Hours are whole hours and prices are cents.  A     *)
(* community average is the exact fraction num/den of tenths.              *)
(***************************************************************************)
EXTENDS Integers, Sequences, FiniteSets, Bags, TLC

\* rows of the users table / of the games table that exist
Users == {1, 2}
Games == {1, 2, 3}

\* Python None / SQL NULL in a numeric column, and in a text column
NULL == 0 - 1
NULLTEXT == "<NULL>"

\* get_user_games: ORDER BY g.name (game 2 has the alphabetically first name)
OrderByName == <<2, 3, 1>>

VARIABLES
    users,              \* users table: id -> [review_points, active_title]
    games,              \* games table: game_id -> metadata and stored aggregates
    user_scores,        \* user_scores table: set of rows, UNIQUE(user_id, game_id)
    user_superlatives,  \* user_superlatives table: bag of rows (id and unlocked_at dropped)
    ret,                \* what the last call returned (or that it raised)
    granted,            \* history: review points granted so far per (user, game)
    calc,               \* the bulk calculation in progress: the calls it still makes
    procs,              \* concurrent requests in flight, statement by statement
    friends             \* friends table (rows) and its AUTOINCREMENT sequence (seq)

vars == <<users, games, user_scores, user_superlatives, ret, granted, calc, procs, friends>>

----------------------------------------------------------------------------
(* The catalogue seeded by init_db, in insertion order: id = position.     *)

Catalogue == <<
    [name |-> "Toxic Relationship", category |-> "solo"],
    [name |-> "Die on this Hill", category |-> "solo"],
    [name |-> "Agree to Disagree", category |-> "solo"],
    [name |-> "Favorite Child", category |-> "solo"],
    [name |-> "Nostalgic", category |-> "solo"],
    [name |-> "Worth Every Nickel", category |-> "solo"],
    [name |-> "Here for the Music", category |-> "solo"],
    [name |-> "Here for the Story", category |-> "solo"],
    [name |-> "Gameplay Guru", category |-> "solo"],
    [name |-> "Small Business Supporter", category |-> "solo"],
    [name |-> "Don't Make Them Like They Used To", category |-> "solo"],
    [name |-> "Get What You Pay For", category |-> "solo"],
    [name |-> "Graphics Not Required", category |-> "solo"],
    [name |-> "Buyer's Remorse", category |-> "solo"],
    [name |-> "Early Adopter", category |-> "solo"],
    [name |-> "Polar Opposites", category |-> "friend"],
    [name |-> "Cultists", category |-> "friend"],
    [name |-> "In Good Company", category |-> "friend"],
    [name |-> "Great Minds", category |-> "friend"],
    [name |-> "Addicts", category |-> "friend"] >>

SuperlativeIds == DOMAIN Catalogue
SuperlativeNames == {Catalogue[i].name : i \in SuperlativeIds}
SupId(name) == CHOOSE i \in SuperlativeIds : Catalogue[i].name = name

----------------------------------------------------------------------------
(* Python and SQL helpers.                                                 *)

\* `if x:` on a number or None
Truthy(x) == x # NULL /\ x # 0

\* `if s:` on a string or None
TruthyText(s) == s # NULLTEXT /\ s # ""

\* str.lower() on the graphics_quality / genres values the model draws
Lower(s) ==
    CASE s = "Low" -> "low"
      [] s = "LOW" -> "low"
      [] s = "Very Low" -> "very low"
      [] s = "High" -> "high"
      [] s = "Indie, Action" -> "indie, action"
      [] s = "INDIE" -> "indie"
      [] s = "Action" -> "action"
      [] OTHER -> s

\* 'indie' in s   (on a lower-cased genres string)
ContainsIndie(s) == s \in {"indie", "indie, action"}

Digits == {"0", "1", "2", "3", "4", "5", "6", "7", "8", "9"}
WordChars == Digits \cup {"a", "b", "c", "e", "n", "r", "v", "A", "M", "N", "T", "B", "_"}
DigitVal(c) ==
    CASE c = "0" -> 0 [] c = "1" -> 1 [] c = "2" -> 2 [] c = "3" -> 3 [] c = "4" -> 4
      [] c = "5" -> 5 [] c = "6" -> 6 [] c = "7" -> 7 [] c = "8" -> 8 [] c = "9" -> 9

\* re.search(r'\b(19|20)\d{2}\b', str(release_date)): the positions where a
\* match starts; release_date is a sequence of characters
YearMatchAt(s, i) ==
    /\ i + 3 <= Len(s)
    /\ s[i] \in {"1", "2"}
    /\ (s[i] = "1" => s[i + 1] = "9")
    /\ (s[i] = "2" => s[i + 1] = "0")
    /\ s[i + 2] \in Digits
    /\ s[i + 3] \in Digits
    /\ (i = 1 \/ s[i - 1] \notin WordChars)
    /\ (i + 3 = Len(s) \/ s[i + 4] \notin WordChars)

\* int(year_match.group()) of the leftmost match, NULL when there is none
YearMatch(s) ==
    LET starts == {i \in 1..Len(s) : YearMatchAt(s, i)}
    IN  IF starts = {} THEN NULL
        ELSE LET i == CHOOSE j \in starts : \A k \in starts : j <= k
             IN  DigitVal(s[i]) * 1000 + DigitVal(s[i + 1]) * 100
                 + DigitVal(s[i + 2]) * 10 + DigitVal(s[i + 3])

\* tuple comparison of two sort keys <<a, b>>
KeyLess(k1, k2) == k1[1] < k2[1] \/ (k1[1] = k2[1] /\ k1[2] < k2[2])

\* sorted(seq, key=...): Python's sort is stable, so an element goes after
\* every element already placed whose key is not greater
RECURSIVE InsertSorted(_, _, _)
InsertSorted(x, seq, key) ==
    IF seq = <<>> THEN <<x>>
    ELSE IF KeyLess(key[x], key[Head(seq)]) THEN <<x>> \o seq
    ELSE <<Head(seq)>> \o InsertSorted(x, Tail(seq), key)

RECURSIVE SortedBy(_, _)
SortedBy(seq, key) ==
    IF seq = <<>> THEN <<>>
    ELSE LET n == Len(seq)
         IN  InsertSorted(seq[n], SortedBy(SubSeq(seq, 1, n - 1), key), key)

\* seq[:k]
Prefix(seq, k) == SubSeq(seq, 1, IF Len(seq) < k THEN Len(seq) ELSE k)

Range(seq) == {seq[i] : i \in DOMAIN seq}

----------------------------------------------------------------------------
(* Reads of the rating store.                                              *)

HasRow(u, g) == \E r \in user_scores : r.user_id = u /\ r.game_id = g
Row(u, g) == CHOOSE r \in user_scores : r.user_id = u /\ r.game_id = g

\* get_user_games(user_id): the joined rows of the user, ORDER BY g.name
\* (as game ids; the columns are read through Row and games)
get_user_games(u) == SelectSeq(OrderByName, LAMBDA g : HasRow(u, g))

\* the SELECT list of get_user_games has no updated_at column, so
\* game.get('updated_at') is None for every joined row
UpdatedAt(u, g) == NULLTEXT

FirstGame(seq, P(_)) ==
    LET m == SelectSeq(seq, P) IN IF m = <<>> THEN NULL ELSE Head(m)

\* score - average > 2, the average being the fraction num/den of tenths
AboveAverage(score, avg) == score * avg.den - avg.num > 20 * avg.den
BelowAverage(score, avg) == avg.num - score * avg.den > 20 * avg.den

\* the sort key with a missing enjoyment_order left as it is
RankKey_NullFirst(u) ==
    [g \in Games |->
        IF HasRow(u, g)
        THEN <<0 - Row(u, g).enjoyment_score, Row(u, g).enjoyment_order>>
        ELSE <<0, 0>>]

\* games with an enjoyment score, sorted by (-enjoyment_score, enjoyment_order or 999999)
RankKey(u) ==
    [g \in Games |->
        IF HasRow(u, g)
        THEN <<0 - Row(u, g).enjoyment_score,
               IF Truthy(Row(u, g).enjoyment_order) THEN Row(u, g).enjoyment_order ELSE 999999>>
        ELSE <<0, 0>>]
Ranked(u) ==
    SortedBy(SelectSeq(get_user_games(u), LAMBDA g : Truthy(Row(u, g).enjoyment_score)),
             RankKey(u))

\* games_with_hours.sort(key=hours_played, reverse=True): stable among equals
HoursKey(u) ==
    [g \in Games |-> IF HasRow(u, g) THEN <<0 - Row(u, g).hours_played, 0>> ELSE <<0, 0>>]
GamesWithHours(u) ==
    SortedBy(SelectSeq(get_user_games(u), LAMBDA g : Truthy(Row(u, g).hours_played)),
             HoursKey(u))

\* all(axis - s >= 2 for s in other) with other non-empty
ExceedsAll(axis, other) == other # {} /\ \A s \in other : axis - s >= 20

----------------------------------------------------------------------------
(* check_superlative_eligibility: one branch per catalogue name.           *)

EligToxic(u, g) ==
    LET r == Row(u, g)
    IN  /\ Truthy(r.enjoyment_score) /\ Truthy(r.hours_played)
        /\ r.enjoyment_score < 70 /\ r.hours_played > 100

EligDieOnHill(u, g) ==
    /\ Truthy(Row(u, g).enjoyment_score)
    /\ games[g].average_enjoyment_score.num # 0
    /\ AboveAverage(Row(u, g).enjoyment_score, games[g].average_enjoyment_score)

EligAgreeToDisagree(u, g) ==
    /\ Truthy(Row(u, g).enjoyment_score)
    /\ games[g].average_enjoyment_score.num # 0
    /\ BelowAverage(Row(u, g).enjoyment_score, games[g].average_enjoyment_score)

EligNostalgic(u, g) ==
    /\ Truthy(Row(u, g).enjoyment_score)
    /\ Row(u, g).enjoyment_score >= 90
    /\ games[g].release_date # <<>>
    /\ YearMatch(games[g].release_date) # NULL
    /\ YearMatch(games[g].release_date) < 2009

\* price_row['original_price'] or price_row['price']
EligPrice(g) ==
    IF Truthy(games[g].original_price) THEN games[g].original_price ELSE games[g].price

\* price / hours <= 0.05, in cents per hour
EligWorthEveryNickel(u, g) ==
    /\ Truthy(Row(u, g).hours_played) /\ Row(u, g).hours_played > 0
    /\ Truthy(EligPrice(g))
    /\ EligPrice(g) <= 5 * Row(u, g).hours_played

EligMusic(u, g) ==
    LET r == Row(u, g)
    IN  /\ Truthy(r.music_score)
        /\ ExceedsAll(r.music_score,
             {s \in {r.gameplay_score, r.narrative_score, r.enjoyment_score} : Truthy(s)})

EligStory(u, g) ==
    LET r == Row(u, g)
    IN  /\ Truthy(r.narrative_score)
        /\ ExceedsAll(r.narrative_score,
             {s \in {r.gameplay_score, r.music_score, r.enjoyment_score} : Truthy(s)})

EligGameplay(u, g) ==
    LET r == Row(u, g)
    IN  /\ Truthy(r.gameplay_score)
        /\ ExceedsAll(r.gameplay_score,
             {s \in {r.narrative_score, r.music_score, r.enjoyment_score} : Truthy(s)})

IsIndie(g) == TruthyText(games[g].genres) /\ ContainsIndie(Lower(games[g].genres))

\* price / hours > 2, in cents per hour
EligPayFor(u, g) ==
    /\ Truthy(Row(u, g).hours_played) /\ Row(u, g).hours_played > 0
    /\ Truthy(EligPrice(g))
    /\ EligPrice(g) > 200 * Row(u, g).hours_played

\* game.get('enjoyment_score', 0) >= 9 and game.get('graphics_quality', '').lower() in [...]:
\* the keys are always present, so the defaults never apply; None >= 9 raises
\* TypeError and None.lower() raises AttributeError
GraphicsStep(u, g) ==
    LET r == Row(u, g)
    IN  IF r.enjoyment_score = NULL THEN "raise"
        ELSE IF r.enjoyment_score < 90 THEN "skip"
        ELSE IF r.graphics_quality = NULLTEXT THEN "raise"
        ELSE IF Lower(r.graphics_quality) \in {"low", "poor", "bad"} THEN "match"
        ELSE "skip"

EligBuyersRemorse(u, g) ==
    LET r == Row(u, g)
    IN  /\ Truthy(r.enjoyment_score) /\ Truthy(r.hours_played)
        /\ r.enjoyment_score < 60 /\ r.hours_played < 10

\* SELECT COUNT(*) FROM user_scores WHERE game_id = ?   <= 10
EligEarlyAdopter(u, g) ==
    Cardinality({r \in user_scores : r.game_id = g}) <= 10

Found(g) == [eligible |-> g # NULL, game_id |-> g, raised |-> FALSE]
NotEligible == [eligible |-> FALSE, game_id |-> NULL, raised |-> FALSE]
Raised == [eligible |-> FALSE, game_id |-> NULL, raised |-> TRUE]

\* returns (eligible, game_id), or raises
check_superlative_eligibility(u, name) ==
    LET ug == get_user_games(u)
        top == Ranked(u)
        gwh == GamesWithHours(u)
    IN  IF ug = <<>> THEN NotEligible
        ELSE CASE name = "Toxic Relationship" ->
                    Found(FirstGame(ug, LAMBDA g : EligToxic(u, g)))
               [] name = "Die on this Hill" ->
                    Found(FirstGame(ug, LAMBDA g : EligDieOnHill(u, g)))
               [] name = "Agree to Disagree" ->
                    Found(FirstGame(ug, LAMBDA g : EligAgreeToDisagree(u, g)))
               [] name = "Favorite Child" ->
                    IF /\ Len(gwh) >= 2
                       /\ Row(u, gwh[1]).hours_played > Row(u, gwh[2]).hours_played * 2
                    THEN Found(gwh[1]) ELSE NotEligible
               [] name = "Nostalgic" ->
                    Found(FirstGame(ug, LAMBDA g : EligNostalgic(u, g)))
               [] name = "Worth Every Nickel" ->
                    Found(FirstGame(ug, LAMBDA g : EligWorthEveryNickel(u, g)))
               [] name = "Here for the Music" ->
                    Found(FirstGame(ug, LAMBDA g : EligMusic(u, g)))
               [] name = "Here for the Story" ->
                    Found(FirstGame(ug, LAMBDA g : EligStory(u, g)))
               [] name = "Gameplay Guru" ->
                    Found(FirstGame(ug, LAMBDA g : EligGameplay(u, g)))
               [] name = "Small Business Supporter" ->
                    Found(FirstGame(Prefix(top, 5), IsIndie))
               [] name = "Don't Make Them Like They Used To" ->
                    IF /\ top # <<>>
                       /\ games[top[1]].release_date # <<>>
                       /\ YearMatch(games[top[1]].release_date) # NULL
                       /\ YearMatch(games[top[1]].release_date) < 2010
                    THEN Found(top[1]) ELSE NotEligible
               [] name = "Get What You Pay For" ->
                    Found(FirstGame(Prefix(top, 10), LAMBDA g : EligPayFor(u, g)))
               [] name = "Graphics Not Required" ->
                    LET g == FirstGame(ug, LAMBDA h : GraphicsStep(u, h) # "skip")
                    IN  IF g = NULL THEN NotEligible
                        ELSE IF GraphicsStep(u, g) = "raise" THEN Raised
                        ELSE Found(g)
               [] name = "Buyer's Remorse" ->
                    Found(FirstGame(ug, LAMBDA g : EligBuyersRemorse(u, g)))
               [] name = "Early Adopter" ->
                    Found(FirstGame(ug, LAMBDA g : EligEarlyAdopter(u, g)))
               [] OTHER -> NotEligible

----------------------------------------------------------------------------
(* calculate_solo_superlatives / calculate_friend_superlatives: the        *)
(* unlock_superlative calls they make, in order.                           *)

Attempts(name, gs, f) ==
    [i \in 1..Len(gs) |-> [name |-> name, game_id |-> gs[i], friend_id |-> f]]

\* price_row['price'] only: the bulk path does not read original_price
BulkWorthEveryNickel(u, g) ==
    /\ Truthy(Row(u, g).hours_played) /\ Row(u, g).hours_played > 0
    /\ Truthy(games[g].price)
    /\ games[g].price <= 5 * Row(u, g).hours_played

BulkPayFor(u, g) ==
    /\ Truthy(Row(u, g).hours_played) /\ Row(u, g).hours_played > 0
    /\ Truthy(games[g].price)
    /\ games[g].price > 200 * Row(u, g).hours_played

\* other_scores keeps every score that `is not None`, a 0 included
BulkMusic(u, g) ==
    LET r == Row(u, g)
    IN  /\ Truthy(r.music_score)
        /\ ExceedsAll(r.music_score,
             {s \in {r.gameplay_score, r.narrative_score, r.enjoyment_score} : s # NULL})

BulkStory(u, g) ==
    LET r == Row(u, g)
    IN  /\ Truthy(r.narrative_score)
        /\ ExceedsAll(r.narrative_score,
             {s \in {r.gameplay_score, r.music_score, r.enjoyment_score} : s # NULL})

BulkGameplay(u, g) ==
    LET r == Row(u, g)
    IN  /\ Truthy(r.gameplay_score)
        /\ ExceedsAll(r.gameplay_score,
             {s \in {r.narrative_score, r.music_score, r.enjoyment_score} : s # NULL})

BulkGraphics(u, g) ==
    /\ Truthy(Row(u, g).enjoyment_score) /\ Row(u, g).enjoyment_score >= 90
    /\ Row(u, g).graphics_quality \in {"Low", "Very Low"}

\* the "reviewed within 6 months of release" branch, entered only for a row
\* with an enjoyment score and an updated_at value
BulkEarlyAdopter(u, g) ==
    /\ Truthy(Row(u, g).enjoyment_score) /\ TruthyText(UpdatedAt(u, g))
    /\ games[g].release_date # <<>>

SoloAttempts(u) ==
    LET ug == get_user_games(u)
        top_5 == Prefix(Ranked(u), 5)
        top_10 == Prefix(Ranked(u), 10)
        gwh == GamesWithHours(u)
        indie == SelectSeq(top_5, IsIndie)
    IN  IF ug = <<>> THEN <<>>
        ELSE
           Attempts("Toxic Relationship", SelectSeq(ug, LAMBDA g : EligToxic(u, g)), NULL)
        \o Attempts("Die on this Hill", SelectSeq(ug, LAMBDA g : EligDieOnHill(u, g)), NULL)
        \o Attempts("Agree to Disagree",
                    SelectSeq(ug, LAMBDA g : EligAgreeToDisagree(u, g)), NULL)
        \o (IF /\ Len(gwh) >= 2
               /\ Row(u, gwh[1]).hours_played > Row(u, gwh[2]).hours_played * 2
            THEN Attempts("Favorite Child", <<gwh[1]>>, NULL) ELSE <<>>)
        \o Attempts("Nostalgic", SelectSeq(ug, LAMBDA g : EligNostalgic(u, g)), NULL)
        \o Attempts("Worth Every Nickel",
                    SelectSeq(ug, LAMBDA g : BulkWorthEveryNickel(u, g)), NULL)
        \o Attempts("Here for the Music", SelectSeq(ug, LAMBDA g : BulkMusic(u, g)), NULL)
        \o Attempts("Here for the Story", SelectSeq(ug, LAMBDA g : BulkStory(u, g)), NULL)
        \o Attempts("Gameplay Guru", SelectSeq(ug, LAMBDA g : BulkGameplay(u, g)), NULL)
        \o Attempts("Small Business Supporter", Prefix(indie, 1), NULL)
        \o (IF /\ top_5 # <<>>
               /\ games[top_5[1]].release_date # <<>>
               /\ YearMatch(games[top_5[1]].release_date) # NULL
               /\ YearMatch(games[top_5[1]].release_date) < 2010
            THEN Attempts("Don't Make Them Like They Used To", <<top_5[1]>>, NULL)
            ELSE <<>>)
        \o Attempts("Get What You Pay For",
                    SelectSeq(top_10, LAMBDA g : BulkPayFor(u, g)), NULL)
        \o Attempts("Graphics Not Required",
                    SelectSeq(ug, LAMBDA g : BulkGraphics(u, g)), NULL)
        \o Attempts("Buyer's Remorse", SelectSeq(ug, LAMBDA g : EligBuyersRemorse(u, g)), NULL)
        \o Attempts("Early Adopter", SelectSeq(ug, LAMBDA g : BulkEarlyAdopter(u, g)), NULL)

\* iteration over a set of small game ids: ascending
RECURSIVE Ascending(_)
Ascending(S) ==
    IF S = {} THEN <<>>
    ELSE LET m == CHOOSE x \in S : \A y \in S : x <= y
         IN  <<m>> \o Ascending(S \ {m})

Reviewed(u) == {g \in Games : HasRow(u, g) /\ Truthy(Row(u, g).enjoyment_score)}

FriendAttempts(u, f) ==
    LET common == Ascending(Reviewed(u) \cap Reviewed(f))
        user_top_5 == Prefix(Ranked(u), 5)
        friend_top_5 == Prefix(Ranked(f), 5)
        shared_top_5 == Ascending(Range(user_top_5) \cap Range(friend_top_5))
        Diff(g) == Row(u, g).enjoyment_score - Row(f, g).enjoyment_score
        avg(g) == games[g].average_enjoyment_score
    IN  IF common = <<>> THEN <<>>
        ELSE
           Attempts("Polar Opposites",
                    SelectSeq(common, LAMBDA g : Diff(g) > 20 \/ 0 - Diff(g) > 20), f)
        \o Attempts("Cultists",
                    SelectSeq(common, LAMBDA g :
                        /\ avg(g).num # 0
                        /\ AboveAverage(Row(u, g).enjoyment_score, avg(g))
                        /\ AboveAverage(Row(f, g).enjoyment_score, avg(g))), f)
        \o Attempts("In Good Company", Prefix(shared_top_5, 1), f)
        \o (IF user_top_5 # <<>> /\ friend_top_5 # <<>> /\ user_top_5[1] = friend_top_5[1]
            THEN Attempts("Great Minds", <<user_top_5[1]>>, f) ELSE <<>>)
        \o Attempts("Addicts",
                    SelectSeq(common, LAMBDA g :
                        /\ Truthy(Row(u, g).hours_played) /\ Truthy(Row(f, g).hours_played)
                        /\ Row(u, g).hours_played > 100 /\ Row(f, g).hours_played > 100), f)

----------------------------------------------------------------------------
(* The record of the last call: operation, subject and what it returned.   *)

NoCall ==
    [op |-> "none", user_id |-> NULL, game_id |-> NULL, friend_id |-> NULL,
     request_id |-> NULL, success |-> FALSE,
     message |-> "", name |-> NULLTEXT, unlocked |-> <<>>, raised |-> FALSE]

Returned(op, u, success, message, name) ==
    [NoCall EXCEPT !.op = op, !.user_id = u, !.success = success,
                   !.message = message, !.name = name]

\* No bulk calculation is running.
NoCalc ==
    [op |-> "none", user_id |-> NULL, todo |-> <<>>, unlocked |-> <<>>,
     called |-> FALSE, success |-> FALSE, message |-> ""]

Idle == calc.op = "none"

----------------------------------------------------------------------------
(* Currency ledger and rating writes.                                      *)

PrimaryAxes(r) == {r.enjoyment_score, r.gameplay_score, r.music_score, r.narrative_score}

\* any(existing[k] is not None for k in the four primary axes)
HadAnyScore(u, g) == HasRow(u, g) /\ PrimaryAxes(Row(u, g)) # {NULL}

EmptyRow(u, g) ==
    [user_id |-> u, game_id |-> g, enjoyment_score |-> NULL, gameplay_score |-> NULL,
     music_score |-> NULL, narrative_score |-> NULL, hours_played |-> NULL,
     enjoyment_order |-> NULL, graphics_quality |-> NULLTEXT]

\* COALESCE(?, column)
Coalesce(new, old) == IF new # NULL THEN new ELSE old

\* get_review_points: row['review_points'] if row else 0
get_review_points(u) == IF u \in Users THEN users[u].review_points ELSE 0

\* get_unlocked_superlative_slots: rp // 5
get_unlocked_superlative_slots(u) == get_review_points(u) \div 5

RECURSIVE SumEnjoyment(_)
SumEnjoyment(rows) ==
    IF rows = {} THEN 0
    ELSE LET r == CHOOSE x \in rows : TRUE
         IN  r.enjoyment_score + SumEnjoyment(rows \ {r})

\* SELECT AVG(enjoyment_score), COUNT(*) ... WHERE game_id = ? AND enjoyment_score
\* IS NOT NULL, stored as  avg if avg else 0  and  num_ratings
Aggregates(rows, g) ==
    LET rated == {r \in rows : r.game_id = g /\ r.enjoyment_score # NULL}
        total == SumEnjoyment(rated)
    IN  [average_enjoyment_score |->
             IF rated = {} \/ total = 0 THEN [num |-> 0, den |-> 1]
             ELSE [num |-> total, den |-> Cardinality(rated)],
         num_ratings |-> Cardinality(rated)]

\* is_new_review without the look at the existing row
IsNewReview_AnyScore(u, g, scores) == \E i \in 1..4 : scores[i] # NULL

\* is_new_review, from the row read before the upsert and the arguments
IsNewReview(u, g, scores) ==
    LET has_new_score == \E i \in 1..4 : scores[i] # NULL
    IN  IF HasRow(u, g) THEN ~HadAnyScore(u, g) /\ has_new_score
        ELSE has_new_score

\* the row after INSERT ... ON CONFLICT(user_id, game_id) DO UPDATE SET ...
Upserted(u, g, scores, graphics_quality) ==
    LET old == IF HasRow(u, g) THEN Row(u, g) ELSE EmptyRow(u, g)
    IN  [old EXCEPT !.enjoyment_score = Coalesce(scores[1], @),
                    !.gameplay_score = Coalesce(scores[2], @),
                    !.music_score = Coalesce(scores[3], @),
                    !.narrative_score = Coalesce(scores[4], @),
                    !.graphics_quality = graphics_quality]

WithoutRow(u, g) == {r \in user_scores : ~(r.user_id = u /\ r.game_id = g)}

\* scores = <<enjoyment, gameplay, music, narrative>>
set_user_score(u, g, scores, graphics_quality) ==
    LET rows == WithoutRow(u, g) \cup {Upserted(u, g, scores, graphics_quality)}
        agg == Aggregates(rows, g)
        new == IsNewReview(u, g, scores)
    IN  /\ Idle
        /\ user_scores' = rows
        /\ users' = IF new THEN [users EXCEPT ![u].review_points = @ + 1] ELSE users
        /\ granted' = IF new THEN [granted EXCEPT ![u][g] = @ + 1] ELSE granted
        /\ games' = [games EXCEPT ![g].average_enjoyment_score = agg.average_enjoyment_score,
                                  ![g].num_ratings = agg.num_ratings]
        /\ ret' = [NoCall EXCEPT !.op = "set_user_score"]
        /\ UNCHANGED <<user_superlatives, calc, procs, friends>>

set_user_playtime(u, g, hours_played) ==
    LET old == IF HasRow(u, g) THEN Row(u, g) ELSE EmptyRow(u, g)
    IN  /\ Idle
        /\ user_scores' = WithoutRow(u, g)
                \cup {[old EXCEPT !.hours_played = Coalesce(hours_played, @)]}
        /\ ret' = [NoCall EXCEPT !.op = "set_user_playtime"]
        /\ UNCHANGED <<users, games, user_superlatives, granted, calc, procs, friends>>

add_game_to_user_backlog(u, g) ==
    /\ Idle
    /\ user_scores' = IF HasRow(u, g) THEN user_scores ELSE user_scores \cup {EmptyRow(u, g)}
    /\ ret' = [NoCall EXCEPT !.op = "add_game_to_user_backlog", !.success = TRUE]
    /\ UNCHANGED <<users, games, user_superlatives, granted, calc, procs, friends>>

\* a delete that takes the unlock records anchored to the game with it
delete_user_score_Cascade(u, g) ==
    /\ Idle
    /\ user_scores' = WithoutRow(u, g)
    /\ user_superlatives' =
          SetToBag({r \in BagToSet(user_superlatives) : ~(r.user_id = u /\ r.game_id = g)})
    /\ ret' = [NoCall EXCEPT !.op = "delete_user_score"]
    /\ UNCHANGED <<users, games, granted, calc, procs, friends>>

delete_user_score(u, g) ==
    /\ Idle
    /\ user_scores' = WithoutRow(u, g)
    /\ ret' = [NoCall EXCEPT !.op = "delete_user_score"]
    /\ UNCHANGED <<users, games, user_superlatives, granted, calc, procs, friends>>

----------------------------------------------------------------------------
(* Unlock ledger.                                                          *)

UnlocksOf(tbl, u) == {r \in BagToSet(tbl) : r.user_id = u}

\* SELECT COUNT(*) FROM user_superlatives WHERE user_id = ?
RECURSIVE CountRows(_, _)
CountRows(tbl, rows) ==
    IF rows = {} THEN 0
    ELSE LET r == CHOOSE x \in rows : TRUE
         IN  CopiesIn(r, tbl) + CountRows(tbl, rows \ {r})
HeldCount(tbl, u) == CountRows(tbl, UnlocksOf(tbl, u))

\* the lookup with its two parameters bound the wrong way round
AlreadyUnlocked_SwappedArgs(tbl, u, sid) ==
    \E r \in BagToSet(tbl) : r.user_id = sid /\ r.superlative_id = u

\* SELECT 1 FROM user_superlatives WHERE user_id = ? AND superlative_id = ?
AlreadyUnlocked(tbl, u, sid) == \E r \in UnlocksOf(tbl, u) : r.superlative_id = sid

\* the INSERT under UNIQUE(user_id, superlative_id, game_id, friend_id): SQLite
\* holds NULLs distinct, so only a row equal in four non-null columns collides
InsertUserSuperlative_FourColumns(tbl, row) ==
    IF row.game_id # NULL /\ row.friend_id # NULL /\ row \in BagToSet(tbl)
    THEN [ok |-> FALSE, table |-> tbl]
    ELSE [ok |-> TRUE, table |-> tbl (+) SetToBag({row})]

\* INSERT INTO user_superlatives under UNIQUE(user_id, superlative_id) of init_db:
\* ok = FALSE is the IntegrityError
InsertUserSuperlative(tbl, row) ==
    IF AlreadyUnlocked(tbl, row.user_id, row.superlative_id)
    THEN [ok |-> FALSE, table |-> tbl]
    ELSE [ok |-> TRUE, table |-> tbl (+) SetToBag({row})]

UnlockRow(u, sid, g, f) ==
    [user_id |-> u, superlative_id |-> sid, game_id |-> g, friend_id |-> f]

\* unlock_superlative refusing only when the count is above the slots
UnlockIn_OffByOne(tbl, u, name, g, f) ==
    IF name \notin SuperlativeNames
    THEN [success |-> FALSE, message |-> "Superlative not found", table |-> tbl]
    ELSE IF AlreadyUnlocked(tbl, u, SupId(name))
    THEN [success |-> FALSE, message |-> "Already unlocked", table |-> tbl]
    ELSE IF HeldCount(tbl, u) > get_unlocked_superlative_slots(u)
    THEN [success |-> FALSE, message |-> "Need more Review Points", table |-> tbl]
    ELSE LET ins == InsertUserSuperlative(tbl, UnlockRow(u, SupId(name), g, f))
         IN  IF ins.ok
             THEN [success |-> TRUE, message |-> "Superlative unlocked!", table |-> ins.table]
             ELSE [success |-> FALSE, message |-> "IntegrityError", table |-> tbl]

\* unlock_superlative counting the slots before looking for the record
UnlockIn_SlotsFirst(tbl, u, name, g, f) ==
    IF name \notin SuperlativeNames
    THEN [success |-> FALSE, message |-> "Superlative not found", table |-> tbl]
    ELSE IF HeldCount(tbl, u) >= get_unlocked_superlative_slots(u)
    THEN [success |-> FALSE, message |-> "Need more Review Points", table |-> tbl]
    ELSE IF AlreadyUnlocked(tbl, u, SupId(name))
    THEN [success |-> FALSE, message |-> "Already unlocked", table |-> tbl]
    ELSE LET ins == InsertUserSuperlative(tbl, UnlockRow(u, SupId(name), g, f))
         IN  IF ins.ok
             THEN [success |-> TRUE, message |-> "Superlative unlocked!", table |-> ins.table]
             ELSE [success |-> FALSE, message |-> "IntegrityError", table |-> tbl]

\* unlock_superlative on the table tbl: (success, message) and the table after
UnlockIn(tbl, u, name, g, f) ==
    IF name \notin SuperlativeNames
    THEN [success |-> FALSE, message |-> "Superlative not found", table |-> tbl]
    ELSE IF AlreadyUnlocked(tbl, u, SupId(name))
    THEN [success |-> FALSE, message |-> "Already unlocked", table |-> tbl]
    ELSE IF HeldCount(tbl, u) >= get_unlocked_superlative_slots(u)
    THEN [success |-> FALSE, message |-> "Need more Review Points", table |-> tbl]
    ELSE LET ins == InsertUserSuperlative(tbl, UnlockRow(u, SupId(name), g, f))
         IN  IF ins.ok
             THEN [success |-> TRUE, message |-> "Superlative unlocked!", table |-> ins.table]
             ELSE [success |-> FALSE, message |-> "IntegrityError", table |-> tbl]

\* calculate_solo_superlatives(user_id) starts: it reads the user's games once and
\* then calls unlock_superlative for each qualifying (name, game) in turn, every
\* call in a connection and transaction of its own
calculate_solo_superlatives(u) ==
    /\ Idle
    /\ calc' = [NoCalc EXCEPT !.op = "calculate_solo_superlatives", !.user_id = u,
                              !.todo = SoloAttempts(u)]
    /\ UNCHANGED <<users, games, user_scores, user_superlatives, ret, granted, procs, friends>>

calculate_friend_superlatives(u, f) ==
    /\ Idle
    /\ calc' = [NoCalc EXCEPT !.op = "calculate_friend_superlatives", !.user_id = u,
                              !.todo = FriendAttempts(u, f)]
    /\ UNCHANGED <<users, games, user_scores, user_superlatives, ret, granted, procs, friends>>

\* an unlock that gives the friend the same entry
unlock_superlative_Mirrored ==
    /\ ~Idle
    /\ calc.todo # <<>>
    /\ LET a == Head(calc.todo)
           res == UnlockIn(user_superlatives, calc.user_id, a.name, a.game_id, a.friend_id)
           mirrored == IF res.success /\ a.friend_id # NULL
                       THEN UnlockIn(res.table, a.friend_id, a.name, a.game_id, calc.user_id).table
                       ELSE res.table
       IN  /\ user_superlatives' = mirrored
           /\ calc' = [calc EXCEPT !.todo = Tail(@),
                                   !.unlocked = IF res.success THEN Append(@, a.name) ELSE @,
                                   !.called = TRUE,
                                   !.success = res.success,
                                   !.message = res.message]
    /\ UNCHANGED <<users, games, user_scores, ret, granted, procs, friends>>

\* the loop working through the qualifying entries from the end of the catalogue
unlock_superlative_LastFirst ==
    /\ ~Idle
    /\ calc.todo # <<>>
    /\ LET a == calc.todo[Len(calc.todo)]
           res == UnlockIn(user_superlatives, calc.user_id, a.name, a.game_id, a.friend_id)
       IN  /\ user_superlatives' = res.table
           /\ calc' = [calc EXCEPT !.todo = SubSeq(@, 1, Len(@) - 1),
                                   !.unlocked = IF res.success THEN Append(@, a.name) ELSE @,
                                   !.called = TRUE,
                                   !.success = res.success,
                                   !.message = res.message]
    /\ UNCHANGED <<users, games, user_scores, ret, granted, procs, friends>>

\* an unlock that costs a slot's worth of points
unlock_superlative_Charged ==
    /\ ~Idle
    /\ calc.todo # <<>>
    /\ LET a == Head(calc.todo)
           res == UnlockIn(user_superlatives, calc.user_id, a.name, a.game_id, a.friend_id)
       IN  /\ user_superlatives' = res.table
           /\ users' = IF res.success THEN [users EXCEPT ![calc.user_id].review_points = @ - 5]
                       ELSE users
           /\ calc' = [calc EXCEPT !.todo = Tail(@),
                                   !.unlocked = IF res.success THEN Append(@, a.name) ELSE @,
                                   !.called = TRUE,
                                   !.success = res.success,
                                   !.message = res.message]
    /\ UNCHANGED <<games, user_scores, ret, granted, procs, friends>>

\* the loop appending the name whatever unlock_superlative returned
unlock_superlative_AlwaysReported ==
    /\ ~Idle
    /\ calc.todo # <<>>
    /\ LET a == Head(calc.todo)
           res == UnlockIn(user_superlatives, calc.user_id, a.name, a.game_id, a.friend_id)
       IN  /\ user_superlatives' = res.table
           /\ calc' = [calc EXCEPT !.todo = Tail(@),
                                   !.unlocked = Append(@, a.name),
                                   !.called = TRUE,
                                   !.success = res.success,
                                   !.message = res.message]
    /\ UNCHANGED <<users, games, user_scores, ret, granted, procs, friends>>

\* the next unlock_superlative call of the running calculation; a success
\* appends the name to the list `unlocked`
unlock_superlative ==
    /\ ~Idle
    /\ calc.todo # <<>>
    /\ LET a == Head(calc.todo)
           res == UnlockIn(user_superlatives, calc.user_id, a.name, a.game_id, a.friend_id)
       IN  /\ user_superlatives' = res.table
           /\ calc' = [calc EXCEPT !.todo = Tail(@),
                                   !.unlocked = IF res.success THEN Append(@, a.name) ELSE @,
                                   !.called = TRUE,
                                   !.success = res.success,
                                   !.message = res.message]
    /\ UNCHANGED <<users, games, user_scores, ret, granted, procs, friends>>

\* return unlocked
CalculateReturn ==
    /\ ~Idle
    /\ calc.todo = <<>>
    /\ ret' = [NoCall EXCEPT !.op = calc.op, !.user_id = calc.user_id,
                             !.success = TRUE, !.unlocked = calc.unlocked]
    /\ calc' = NoCalc
    /\ UNCHANGED <<users, games, user_scores, user_superlatives, granted, procs, friends>>

----------------------------------------------------------------------------
(* Random unlock purchase.                                                 *)

\* superlatives not in the user's unlock records
AllAvailable(tbl, u) == {sid \in SuperlativeIds : ~AlreadyUnlocked(tbl, u, sid)}

\* a check_superlative_eligibility call of the filtering loop raises
EligibilityRaises(tbl, u) ==
    \E sid \in AllAvailable(tbl, u) :
        /\ Catalogue[sid].category # "friend"
        /\ check_superlative_eligibility(u, Catalogue[sid].name).raised

\* the list `eligible` without the eligibility filter
Eligible_Unfiltered(tbl, u) ==
    {[id |-> sid,
      game_id |-> IF Catalogue[sid].category = "friend" THEN NULL
                  ELSE check_superlative_eligibility(u, Catalogue[sid].name).game_id] :
        sid \in AllAvailable(tbl, u)}

\* the list `eligible`: friend entries as they are (the sqlite3.Row of the
\* query, shown here without a game), solo entries as a dict with the game
\* found by check_superlative_eligibility
Eligible(tbl, u) ==
    {[id |-> sid, game_id |-> NULL] :
        sid \in {x \in AllAvailable(tbl, u) : Catalogue[x].category = "friend"}}
    \cup
    {[id |-> sid, game_id |-> check_superlative_eligibility(u, Catalogue[sid].name).game_id] :
        sid \in {x \in AllAvailable(tbl, u) :
                    /\ Catalogue[x].category # "friend"
                    /\ check_superlative_eligibility(u, Catalogue[x].name).eligible}}

\* the purchase without its comparison of the count with the slots
PurchaseFailure_NoSlotCheck(tbl, u, cost) ==
    IF u \notin Users THEN "User not found"
    ELSE IF users[u].review_points < cost THEN "Not enough RP"
    ELSE IF AllAvailable(tbl, u) = {} THEN "You have unlocked all available titles!"
    ELSE IF EligibilityRaises(tbl, u) THEN "raise"
    ELSE IF Eligible(tbl, u) = {} THEN "You don't qualify for any remaining titles"
    ELSE ""

\* the purchase without its comparison of the balance with the cost
PurchaseFailure_NoFundsCheck(tbl, u, cost) ==
    IF u \notin Users THEN "User not found"
    ELSE IF HeldCount(tbl, u) >= get_unlocked_superlative_slots(u) THEN "No available slots"
    ELSE IF AllAvailable(tbl, u) = {} THEN "You have unlocked all available titles!"
    ELSE IF EligibilityRaises(tbl, u) THEN "raise"
    ELSE IF Eligible(tbl, u) = {} THEN "You don't qualify for any remaining titles"
    ELSE ""

\* the purchase comparing the count with the slots before the balance with the cost
PurchaseFailure_SlotsFirst(tbl, u, cost) ==
    IF u \notin Users THEN "User not found"
    ELSE IF HeldCount(tbl, u) >= get_unlocked_superlative_slots(u) THEN "No available slots"
    ELSE IF users[u].review_points < cost THEN "Not enough RP"
    ELSE IF AllAvailable(tbl, u) = {} THEN "You have unlocked all available titles!"
    ELSE IF EligibilityRaises(tbl, u) THEN "raise"
    ELSE IF Eligible(tbl, u) = {} THEN "You don't qualify for any remaining titles"
    ELSE ""

\* the outcome that ends the call before the draw, "" when the draw is reached
PurchaseFailure(tbl, u, cost) ==
    IF u \notin Users THEN "User not found"
    ELSE IF users[u].review_points < cost THEN "Not enough RP"
    ELSE IF HeldCount(tbl, u) >= get_unlocked_superlative_slots(u) THEN "No available slots"
    ELSE IF AllAvailable(tbl, u) = {} THEN "You have unlocked all available titles!"
    ELSE IF EligibilityRaises(tbl, u) THEN "raise"
    ELSE IF Eligible(tbl, u) = {} THEN "You don't qualify for any remaining titles"
    ELSE ""

\* chosen.get('game_id'): a dict answers; a sqlite3.Row has no get method, so a
\* drawn friend entry raises AttributeError in front of the UPDATE
ChosenGetRaises(chosen) == Catalogue[chosen.id].category = "friend"

\* UPDATE users SET review_points = review_points - cost
Debit(u, cost) == [users EXCEPT ![u].review_points = @ - cost]

\* the UPDATE moved in front of the checks
UsersAfterFailure_DebitFirst(u, cost) == IF u \in Users THEN Debit(u, cost) ELSE users

\* every `return False, ...` of the call precedes the UPDATE: the users table
\* a failed call leaves behind
UsersAfterFailure(u, cost) == users

purchase_random_superlative(u, cost) ==
    LET failure == PurchaseFailure(user_superlatives, u, cost)
    IN  /\ Idle
        /\ UNCHANGED <<games, user_scores, granted, calc, procs, friends>>
        /\ IF failure = "raise"
           THEN /\ ret' = [Returned("purchase_random_superlative", u, FALSE, "", NULLTEXT)
                              EXCEPT !.raised = TRUE]
                /\ UNCHANGED <<users, user_superlatives>>
           ELSE IF failure # ""
           THEN /\ ret' = Returned("purchase_random_superlative", u, FALSE, failure, NULLTEXT)
                /\ users' = UsersAfterFailure(u, cost)
                /\ UNCHANGED user_superlatives
           ELSE \E chosen \in Eligible(user_superlatives, u) :
                  LET ins == InsertUserSuperlative(user_superlatives,
                                 UnlockRow(u, chosen.id, chosen.game_id, NULL))
                  IN  IF ChosenGetRaises(chosen)
                      THEN /\ ret' = [Returned("purchase_random_superlative", u, FALSE, "",
                                               NULLTEXT) EXCEPT !.raised = TRUE]
                           /\ UNCHANGED <<users, user_superlatives>>
                      ELSE IF ins.ok
                      THEN /\ users' = Debit(u, cost)
                           /\ user_superlatives' = ins.table
                           /\ ret' = Returned("purchase_random_superlative", u, TRUE,
                                              "Successfully unlocked", Catalogue[chosen.id].name)
                      ELSE \* IntegrityError: get_db rolls the debit back and re-raises
                           /\ ret' = [Returned("purchase_random_superlative", u, FALSE, "",
                                               NULLTEXT) EXCEPT !.raised = TRUE]
                           /\ UNCHANGED <<users, user_superlatives>>

----------------------------------------------------------------------------
(* Initial states.                                                         *)

\* the games table before any rating: add_or_get_game inserts average 0, num_ratings 0
GameCatalogue ==
    [g \in Games |->
        CASE g = 1 -> [release_date |-> <<"2", "0", "0", "5">>, genres |-> "Indie, Action",
                       price |-> 100, original_price |-> NULL,
                       average_enjoyment_score |-> [num |-> 0, den |-> 1], num_ratings |-> 0]
          [] g = 2 -> [release_date |-> <<"M", "a", "r", " ", "2", "0", "1", "5">>,
                       genres |-> "Action",
                       price |-> 6000, original_price |-> NULL,
                       average_enjoyment_score |-> [num |-> 0, den |-> 1], num_ratings |-> 0]
          [] g = 3 -> [release_date |-> <<"1", "5", "-", "M", "a", "r", "-", "0", "5">>,
                       genres |-> NULLTEXT,
                       price |-> NULL, original_price |-> 1800,
                       average_enjoyment_score |-> [num |-> 0, den |-> 1], num_ratings |-> 0]]

ScoreRow(u, g, e, m, h, gq) ==
    [EmptyRow(u, g) EXCEPT !.enjoyment_score = e, !.music_score = m,
                           !.hours_played = h, !.graphics_quality = gq]

\* rating histories a user can have built with set_user_score,
\* set_user_playtime and add_game_to_user_backlog
NoGames(u) == {}
CheapOldIndie(u) == {ScoreRow(u, 1, 50, NULL, 5, NULLTEXT)}
LongPlayer(u) ==
    {ScoreRow(u, 1, 95, NULL, 150, "Low"), ScoreRow(u, 2, 50, 90, 150, NULLTEXT)}
WithBacklog(u) == {ScoreRow(u, 1, 50, NULL, 5, NULLTEXT), EmptyRow(u, 2)}
LowGraphics(u) == {ScoreRow(u, 3, 95, NULL, 1, "low")}
Regrets(u) == {ScoreRow(u, 3, 40, NULL, 3, NULLTEXT)}
\* a row written by set_user_playtime alone
PlaytimeOnly(u) == {[EmptyRow(u, 1) EXCEPT !.hours_played = 150]}
\* accounts other than the two followed, and a game ten of them rated before u
Crowd == 11..20
Crowded(u) == {ScoreRow(v, 3, 40, NULL, 9, NULLTEXT) : v \in Crowd \cup {u}}

\* the rating stores the runs start from: user 1's and user 2's rows
Scenarios ==
    { LongPlayer(1) \cup CheapOldIndie(2),
      LongPlayer(1) \cup LongPlayer(2),
      WithBacklog(1) \cup NoGames(2),
      CheapOldIndie(1) \cup NoGames(2),
      Regrets(1) \cup NoGames(2),
      Crowded(1) \cup NoGames(2),
      PlaytimeOnly(1) \cup NoGames(2),
      LowGraphics(1) \cup CheapOldIndie(2),
      NoGames(1) \cup LongPlayer(2) }

\* balances the users start with (points stay when a reviewed game is deleted)
InitPoints == {5, 10, 12}
FriendPoints == {0, 5}

WithAggregates(rows) ==
    [g \in Games |->
        [GameCatalogue[g] EXCEPT
            !.average_enjoyment_score = Aggregates(rows, g).average_enjoyment_score,
            !.num_ratings = Aggregates(rows, g).num_ratings]]

NoGrants == [u \in Users |-> [g \in Games |-> 0]]

\* the friends table as init_db creates it
NoFriends == [rows |-> {}, seq |-> 0]

\* user 1 after deleting every rated game (the points and the records stay):
\* holding the five friend entries with a sixth slot free, or holding the
\* whole catalogue
Veterans ==
    { [review_points |-> 30,
       held |-> {sid \in SuperlativeIds : Catalogue[sid].category = "friend"}],
      [review_points |-> 110, held |-> SuperlativeIds] }

Init ==
    /\ \/ /\ user_scores \in Scenarios
          /\ \E p1 \in InitPoints, p2 \in FriendPoints :
                users = [u \in Users |->
                            [review_points |-> IF u = 1 THEN p1 ELSE p2,
                             active_title |-> NULL]]
          /\ user_superlatives = EmptyBag
       \/ /\ user_scores = NoGames(1)
          /\ \E v \in Veterans :
                /\ users = [u \in Users |->
                              [review_points |-> IF u = 1 THEN v.review_points ELSE 0,
                               active_title |-> NULL]]
                /\ user_superlatives =
                      SetToBag({UnlockRow(1, sid, 1,
                                    IF Catalogue[sid].category = "friend" THEN 2 ELSE NULL) :
                                sid \in v.held})
    /\ games = WithAggregates(user_scores)
    /\ ret = NoCall
    /\ granted = NoGrants
    /\ calc = NoCalc
    /\ procs = <<>>
    /\ friends = NoFriends

DefaultCost == 10

CalculateSolo == \E u \in Users : calculate_solo_superlatives(u)
CalculateFriend ==
    \E u \in Users : \E f \in Users \ {u} : calculate_friend_superlatives(u, f)
Purchase == \E u \in Users \cup {3} : purchase_random_superlative(u, DefaultCost)

\* Requests served one after the other.
Next ==
    \/ CalculateSolo
    \/ CalculateFriend
    \/ unlock_superlative
    \/ CalculateReturn
    \/ Purchase

Spec == Init /\ [][Next]_vars

----------------------------------------------------------------------------
(* The rating writes alone, from an empty rating store.                    *)

\* <<enjoyment, gameplay, music, narrative>> as the edit form and the score API pass them
ScoreInputs ==
    { <<50, NULL, NULL, NULL>>, <<NULL, NULL, NULL, 70>>, <<NULL, NULL, NULL, NULL>> }
HourInputs == {5}
\* the (user, game) pairs written to
LedgerPairs == {<<1, 1>>, <<1, 2>>, <<2, 1>>}

\* credits given within a run
MaxGranted == 3
TotalGranted ==
    granted[1][1] + granted[1][2] + granted[1][3] + granted[2][1] + granted[2][2] + granted[2][3]

LedgerInit ==
    /\ user_scores = {}
    /\ games = GameCatalogue
    /\ users = [u \in Users |-> [review_points |-> 0, active_title |-> NULL]]
    /\ user_superlatives = EmptyBag
    /\ ret = NoCall
    /\ granted = NoGrants
    /\ calc = NoCalc
    /\ procs = <<>>
    /\ friends = NoFriends

SetUserScore ==
    \E p \in LedgerPairs, scores \in ScoreInputs :
        /\ IsNewReview(p[1], p[2], scores) => TotalGranted < MaxGranted
        /\ set_user_score(p[1], p[2], scores, NULLTEXT)
SetUserPlaytime ==
    \E p \in LedgerPairs, h \in HourInputs : set_user_playtime(p[1], p[2], h)
AddGameToUserBacklog == \E p \in LedgerPairs : add_game_to_user_backlog(p[1], p[2])
DeleteUserScore == \E p \in LedgerPairs : delete_user_score(p[1], p[2])

LedgerNext ==
    \/ SetUserScore
    \/ SetUserPlaytime
    \/ AddGameToUserBacklog
    \/ DeleteUserScore

LedgerSpec == LedgerInit /\ [][LedgerNext]_vars

----------------------------------------------------------------------------
(* Concurrent requests.  The application serves requests on threads and    *)
(* takes no lock of its own: every database function opens a connection    *)
(* (get_db), a SELECT sees the last committed state, the first write of a  *)
(* connection takes the database's write lock and holds it until commit or *)
(* rollback, and a writer that finds the lock taken waits and, after the   *)
(* busy timeout, fails with "database is locked".                          *)

Procs == {1, 2}

NoProc ==
    [op |-> "none", user_id |-> NULL, pc |-> "idle", todo |-> <<>>, unlocked |-> <<>>,
     review_points |-> 0, slots |-> 0, chosen |-> [id |-> NULL, game_id |-> NULL],
     cost |-> 0, debit |-> 0, undone |-> 0, raised |-> FALSE, success |-> FALSE]

\* a purchase holds the write lock from its UPDATE to its commit or rollback
WriteLocked == \E q \in Procs : procs[q].pc \in {"p_insert", "p_commit"}

\* where a calculation goes after an unlock_superlative call returned
NextCall(todo) == IF todo = <<>> THEN "return" ELSE "u_check"

StartCalculateSolo(p, u) ==
    /\ procs[p].pc = "idle"
    /\ procs' = [procs EXCEPT ![p] =
                    [NoProc EXCEPT !.op = "calculate_solo_superlatives", !.user_id = u,
                                   !.todo = SoloAttempts(u),
                                   !.pc = NextCall(SoloAttempts(u))]]
    /\ UNCHANGED <<users, games, user_scores, user_superlatives, ret, granted, calc, friends>>

StartCalculateFriend(p, u, f) ==
    /\ procs[p].pc = "idle"
    /\ procs' = [procs EXCEPT ![p] =
                    [NoProc EXCEPT !.op = "calculate_friend_superlatives", !.user_id = u,
                                   !.todo = FriendAttempts(u, f),
                                   !.pc = NextCall(FriendAttempts(u, f))]]
    /\ UNCHANGED <<users, games, user_scores, user_superlatives, ret, granted, calc, friends>>

\* unlock_superlative: SELECT 1 FROM user_superlatives WHERE user_id = ? AND superlative_id = ?
UnlockCheck(p) ==
    LET me == procs[p]
        a == Head(me.todo)
    IN  /\ me.pc = "u_check"
        /\ procs' = [procs EXCEPT ![p] =
                IF AlreadyUnlocked(user_superlatives, me.user_id, SupId(a.name))
                THEN [me EXCEPT !.todo = Tail(@), !.pc = NextCall(Tail(me.todo))]
                ELSE [me EXCEPT !.pc = "u_slots"]]
        /\ UNCHANGED <<users, games, user_scores, user_superlatives, ret, granted, calc, friends>>

\* unlock_superlative: unlocked_slots = get_unlocked_superlative_slots(user_id)
UnlockSlots(p) ==
    LET me == procs[p]
    IN  /\ me.pc = "u_slots"
        /\ procs' = [procs EXCEPT ![p] =
                [me EXCEPT !.slots = get_unlocked_superlative_slots(me.user_id),
                           !.pc = "u_count"]]
        /\ UNCHANGED <<users, games, user_scores, user_superlatives, ret, granted, calc, friends>>

\* unlock_superlative: SELECT COUNT(*) and the comparison with unlocked_slots
UnlockCount(p) ==
    LET me == procs[p]
    IN  /\ me.pc = "u_count"
        /\ procs' = [procs EXCEPT ![p] =
                IF HeldCount(user_superlatives, me.user_id) >= me.slots
                THEN [me EXCEPT !.todo = Tail(@), !.pc = NextCall(Tail(me.todo))]
                ELSE [me EXCEPT !.pc = "u_insert"]]
        /\ UNCHANGED <<users, games, user_scores, user_superlatives, ret, granted, calc, friends>>

\* unlock_superlative: INSERT and commit; an exception (IntegrityError, or
\* "database is locked" while a purchase holds the write lock) is caught and
\* returned as (False, str(e))
UnlockInsert(p) ==
    LET me == procs[p]
        a == Head(me.todo)
        ins == InsertUserSuperlative(user_superlatives,
                   UnlockRow(me.user_id, SupId(a.name), a.game_id, a.friend_id))
    IN  /\ me.pc = "u_insert"
        /\ \/ /\ ~WriteLocked
              /\ user_superlatives' = ins.table
              /\ procs' = [procs EXCEPT ![p] =
                      [me EXCEPT !.todo = Tail(@), !.pc = NextCall(Tail(me.todo)),
                                 !.unlocked = IF ins.ok THEN Append(@, a.name) ELSE @]]
           \/ /\ WriteLocked
              /\ user_superlatives' = user_superlatives
              /\ procs' = [procs EXCEPT ![p] =
                      [me EXCEPT !.todo = Tail(@), !.pc = NextCall(Tail(me.todo))]]
        /\ UNCHANGED <<users, games, user_scores, ret, granted, calc, friends>>

\* return unlocked
CalculateDone(p) ==
    /\ procs[p].pc = "return"
    /\ procs' = [procs EXCEPT ![p].pc = "done", ![p].success = TRUE]
    /\ UNCHANGED <<users, games, user_scores, user_superlatives, ret, granted, calc, friends>>

StartPurchase(p, u, cost) ==
    /\ procs[p].pc = "idle"
    /\ procs' = [procs EXCEPT ![p] =
                    [NoProc EXCEPT !.op = "purchase_random_superlative", !.user_id = u,
                                   !.cost = cost, !.pc = "p_points"]]
    /\ UNCHANGED <<users, games, user_scores, user_superlatives, ret, granted, calc, friends>>

\* purchase: SELECT review_points and the comparison with cost
PurchasePoints(p) ==
    LET me == procs[p]
    IN  /\ me.pc = "p_points"
        /\ procs' = [procs EXCEPT ![p] =
                IF me.user_id \notin Users \/ users[me.user_id].review_points < me.cost
                THEN [me EXCEPT !.pc = "done"]
                ELSE [me EXCEPT !.review_points = users[me.user_id].review_points,
                                !.pc = "p_slots"]]
        /\ UNCHANGED <<users, games, user_scores, user_superlatives, ret, granted, calc, friends>>

\* purchase: unlocked_slots = get_unlocked_superlative_slots(user_id)
PurchaseSlots(p) ==
    LET me == procs[p]
    IN  /\ me.pc = "p_slots"
        /\ procs' = [procs EXCEPT ![p] =
                [me EXCEPT !.slots = get_unlocked_superlative_slots(me.user_id),
                           !.pc = "p_count"]]
        /\ UNCHANGED <<users, games, user_scores, user_superlatives, ret, granted, calc, friends>>

\* purchase: SELECT COUNT(*) and the comparison with unlocked_slots
PurchaseCount(p) ==
    LET me == procs[p]
    IN  /\ me.pc = "p_count"
        /\ procs' = [procs EXCEPT ![p] =
                IF HeldCount(user_superlatives, me.user_id) >= me.slots
                THEN [me EXCEPT !.pc = "done"]
                ELSE [me EXCEPT !.pc = "p_draw"]]
        /\ UNCHANGED <<users, games, user_scores, user_superlatives, ret, granted, calc, friends>>

\* purchase: all_available, the eligibility filter, random.choice and
\* chosen.get('game_id')
PurchaseDraw(p) ==
    LET me == procs[p]
        u == me.user_id
    IN  /\ me.pc = "p_draw"
        /\ IF AllAvailable(user_superlatives, u) = {} THEN
               procs' = [procs EXCEPT ![p] = [me EXCEPT !.pc = "done"]]
           ELSE IF EligibilityRaises(user_superlatives, u) THEN
               procs' = [procs EXCEPT ![p] = [me EXCEPT !.pc = "done", !.raised = TRUE]]
           ELSE IF Eligible(user_superlatives, u) = {} THEN
               procs' = [procs EXCEPT ![p] = [me EXCEPT !.pc = "done"]]
           ELSE \E chosen \in Eligible(user_superlatives, u) :
               procs' = [procs EXCEPT ![p] =
                   IF ChosenGetRaises(chosen)
                   THEN [me EXCEPT !.pc = "done", !.raised = TRUE]
                   ELSE [me EXCEPT !.chosen = chosen, !.pc = "p_update"]]
        /\ UNCHANGED <<users, games, user_scores, user_superlatives, ret, granted, calc, friends>>

\* the UPDATE committed on its own, as a connection in autocommit mode does
PurchaseUpdate_Autocommit(p) ==
    LET me == procs[p]
    IN  /\ me.pc = "p_update"
        /\ procs' = [procs EXCEPT ![p] =
                IF WriteLocked THEN [me EXCEPT !.pc = "done", !.raised = TRUE]
                ELSE [me EXCEPT !.pc = "p_insert"]]
        /\ users' = IF WriteLocked THEN users ELSE Debit(me.user_id, me.cost)
        /\ UNCHANGED <<games, user_scores, user_superlatives, ret, granted, calc, friends>>

\* purchase: UPDATE users SET review_points = review_points - cost (not yet
\* committed); "database is locked" propagates and ends the call
PurchaseUpdate(p) ==
    LET me == procs[p]
    IN  /\ me.pc = "p_update"
        /\ procs' = [procs EXCEPT ![p] =
                IF WriteLocked THEN [me EXCEPT !.pc = "done", !.raised = TRUE]
                ELSE [me EXCEPT !.debit = me.cost, !.pc = "p_insert"]]
        /\ UNCHANGED <<users, games, user_scores, user_superlatives, ret, granted, calc, friends>>

\* get_db on an exception: conn.rollback(), then re-raise
Rollback(me) == [me EXCEPT !.undone = me.debit, !.debit = 0, !.pc = "done", !.raised = TRUE]

\* purchase: INSERT INTO user_superlatives; an IntegrityError leaves the with
\* block of get_db
PurchaseInsert(p) ==
    LET me == procs[p]
        ins == InsertUserSuperlative(user_superlatives,
                   UnlockRow(me.user_id, me.chosen.id, me.chosen.game_id, NULL))
    IN  /\ me.pc = "p_insert"
        /\ procs' = [procs EXCEPT ![p] =
                IF ins.ok THEN [me EXCEPT !.pc = "p_commit"] ELSE Rollback(me)]
        /\ UNCHANGED <<users, games, user_scores, user_superlatives, ret, granted, calc, friends>>

\* purchase: conn.commit() makes the debit and the new row visible together
PurchaseCommit(p) ==
    LET me == procs[p]
    IN  /\ me.pc = "p_commit"
        /\ users' = Debit(me.user_id, me.debit)
        /\ user_superlatives' = user_superlatives
               (+) SetToBag({UnlockRow(me.user_id, me.chosen.id, me.chosen.game_id, NULL)})
        /\ procs' = [procs EXCEPT ![p] = [me EXCEPT !.pc = "done", !.success = TRUE]]
        /\ UNCHANGED <<games, user_scores, ret, granted, calc, friends>>

\* the users whose requests run concurrently, and the friend compared with
ConcUsers == {1}
ConcFriend(u) == CHOOSE f \in Users : f # u

ConcScenarios ==
    { LongPlayer(1) \cup CheapOldIndie(2),
      CheapOldIndie(1) \cup NoGames(2) }

ConcInit ==
    /\ user_scores \in ConcScenarios
    /\ games = WithAggregates(user_scores)
    /\ \E p1 \in InitPoints :
          users = [u \in Users |->
                      [review_points |-> IF u \in ConcUsers THEN p1 ELSE 0,
                       active_title |-> NULL]]
    /\ user_superlatives = EmptyBag
    /\ ret = NoCall
    /\ granted = NoGrants
    /\ calc = NoCalc
    /\ procs = [p \in Procs |-> NoProc]
    /\ friends = NoFriends

\* Requests of the same user served on threads, a statement at a time.
ConcNext ==
    \E p \in Procs :
        \/ \E u \in ConcUsers : StartCalculateSolo(p, u)
        \/ \E u \in ConcUsers : StartCalculateFriend(p, u, ConcFriend(u))
        \/ \E u \in ConcUsers : StartPurchase(p, u, DefaultCost)
        \/ UnlockCheck(p)
        \/ UnlockSlots(p)
        \/ UnlockCount(p)
        \/ UnlockInsert(p)
        \/ CalculateDone(p)
        \/ PurchasePoints(p)
        \/ PurchaseSlots(p)
        \/ PurchaseCount(p)
        \/ PurchaseDraw(p)
        \/ PurchaseUpdate(p)
        \/ PurchaseInsert(p)
        \/ PurchaseCommit(p)

ConcSpec == ConcInit /\ [][ConcNext]_vars

----------------------------------------------------------------------------
(* Titles, the reset tool and a single unlock_superlative call, together   *)
(* with the rating writes, the calculations and the purchase.              *)

\* unlock_superlative called on its own
UnlockCall(u, name, g, f) ==
    LET res == UnlockIn(user_superlatives, u, name, g, f)
    IN  /\ Idle
        /\ user_superlatives' = res.table
        /\ ret' = [Returned("unlock_superlative", u, res.success, res.message, name)
                      EXCEPT !.game_id = g, !.friend_id = f]
        /\ UNCHANGED <<users, games, user_scores, granted, calc, procs, friends>>

set_active_title(u, sid) ==
    /\ Idle
    /\ IF AlreadyUnlocked(user_superlatives, u, sid)
       THEN /\ users' = [users EXCEPT ![u].active_title = sid]
            /\ ret' = Returned("set_active_title", u, TRUE, "Title activated!", NULLTEXT)
       ELSE /\ users' = users
            /\ ret' = Returned("set_active_title", u, FALSE,
                               "You haven't unlocked this title", NULLTEXT)
    /\ UNCHANGED <<games, user_scores, user_superlatives, granted, calc, procs, friends>>

clear_active_title(u) ==
    /\ Idle
    /\ users' = [users EXCEPT ![u].active_title = NULL]
    /\ ret' = Returned("clear_active_title", u, TRUE, "", NULLTEXT)
    /\ UNCHANGED <<games, user_scores, user_superlatives, granted, calc, procs, friends>>

\* a reset that deletes the records and leaves the titles
reset_superlatives_KeepTitles ==
    /\ Idle
    /\ user_superlatives' = EmptyBag
    /\ ret' = [NoCall EXCEPT !.op = "reset_superlatives"]
    /\ UNCHANGED <<users, games, user_scores, granted, calc, procs, friends>>

\* reset_superlatives.py: DELETE FROM user_superlatives; UPDATE users SET active_title = NULL
reset_superlatives ==
    /\ Idle
    /\ user_superlatives' = EmptyBag
    /\ users' = [u \in Users |-> [users[u] EXCEPT !.active_title = NULL]]
    /\ ret' = [NoCall EXCEPT !.op = "reset_superlatives"]
    /\ UNCHANGED <<games, user_scores, granted, calc, procs, friends>>

\* <<name, game_id, friend_id>> a single unlock_superlative call is given
UnlockInputs ==
    { <<"No Such Title", NULL, NULL>>, <<"Toxic Relationship", 1, NULL>>,
      <<"Polar Opposites", 1, 2>> }
\* costs a purchase is called with: the function's default and a free draw
Costs == {0, DefaultCost}

FullInit ==
    /\ user_scores = CheapOldIndie(1)
    /\ games = WithAggregates(user_scores)
    \* user 1 is one point short of the cost
    /\ users = [u \in Users |->
                  [review_points |-> IF u = 1 THEN DefaultCost - 1 ELSE 0,
                   active_title |-> NULL]]
    /\ user_superlatives = EmptyBag
    /\ ret = NoCall
    /\ granted = NoGrants
    /\ calc = NoCalc
    /\ procs = <<>>
    /\ friends = NoFriends

\* Every request, served one after the other; the rating writes stay on the
\* enjoyment and the hours of user 1's row for game 1, credited once more at most.
FullNext ==
    \/ /\ LedgerNext
       /\ \A r \in user_scores' : r.user_id = 1 /\ r.game_id = 1 /\ r.narrative_score = NULL
       /\ granted'[1][1] <= 1
    \/ calculate_solo_superlatives(1)
    \/ calculate_friend_superlatives(1, 2)
    \/ unlock_superlative
    \/ CalculateReturn
    \/ \E cost \in Costs : purchase_random_superlative(1, cost)
    \/ \E i \in UnlockInputs : UnlockCall(1, i[1], i[2], i[3])
    \/ \E sid \in SuperlativeIds : set_active_title(1, sid)
    \/ clear_active_title(1)
    \/ reset_superlatives

FullSpec == FullInit /\ [][FullNext]_vars

----------------------------------------------------------------------------
(* The ranking of a user's games and the tie order the user sets.          *)

\* position of g in ordered_game_ids, counted from 1 (the last one if repeated)
PosIn(ids, g) == CHOOSE i \in DOMAIN ids : ids[i] = g /\ \A j \in DOMAIN ids : ids[j] = g => j <= i

\* UPDATE user_scores SET enjoyment_order = pos for each listed game, pos = 1, 2, ...;
\* a score_key outside key_map returns False
set_tie_order(u, score_key, ordered_game_ids) ==
    /\ Idle
    /\ IF score_key # "enjoyment_score"
       THEN /\ ret' = [NoCall EXCEPT !.op = "set_tie_order", !.user_id = u]
            /\ UNCHANGED user_scores
       ELSE /\ ret' = [NoCall EXCEPT !.op = "set_tie_order", !.user_id = u, !.success = TRUE]
            /\ user_scores' =
                  {IF r.user_id = u /\ r.game_id \in Range(ordered_game_ids)
                   THEN [r EXCEPT !.enjoyment_order = PosIn(ordered_game_ids, r.game_id)]
                   ELSE r : r \in user_scores}
    /\ UNCHANGED <<users, games, user_superlatives, granted, calc, procs, friends>>

\* enjoyment scores of the stored rows: none, 0, 5.0 and 9.0
RankScores == {NULL, 0, 50, 90}

\* the id lists a reorder request sends
TieLists ==
    {ids \in UNION {[1..n -> Games] : n \in 1..Cardinality(Games)} :
        \A i, j \in DOMAIN ids : ids[i] = ids[j] => i = j}

RankInit ==
    /\ \E sc \in [Games -> RankScores] :
          user_scores = {ScoreRow(1, g, sc[g], NULL, 5, NULLTEXT) : g \in Games}
    /\ games = WithAggregates(user_scores)
    /\ users = [u \in Users |-> [review_points |-> 0, active_title |-> NULL]]
    /\ user_superlatives = EmptyBag
    /\ ret = NoCall
    /\ granted = NoGrants
    /\ calc = NoCalc
    /\ procs = <<>>
    /\ friends = NoFriends

RankNext ==
    \E key \in {"enjoyment_score", "review_text"}, ids \in TieLists : set_tie_order(1, key, ids)

RankSpec == RankInit /\ [][RankNext]_vars

----------------------------------------------------------------------------
(* Friend requests and friendships.                                        *)

\* the rows between two users, in either direction
Between(a, b) ==
    {r \in friends.rows : \/ r.user_id = a /\ r.friend_id = b
                          \/ r.user_id = b /\ r.friend_id = a}

\* the selection without its test of the recipient
RequestFor_AnyCaller(request_id, u) == {r \in friends.rows : r.id = request_id}

\* the row accept and reject select: WHERE id = ? AND friend_id = ?
RequestFor(request_id, u) ==
    {r \in friends.rows : r.id = request_id /\ r.friend_id = u}

\* requests sent within a run
MaxRequests == 3

\* friend is the id the username resolves to, an id outside Users when no
\* account has the name
send_friend_request(u, friend) ==
    LET existing == Between(u, friend)
        Answer(ok, msg) ==
            [Returned("send_friend_request", u, ok, msg, NULLTEXT) EXCEPT !.friend_id = friend]
    IN  /\ Idle
        /\ UNCHANGED <<users, games, user_scores, user_superlatives, granted, calc, procs>>
        /\ IF friend \notin Users
           THEN ret' = Answer(FALSE, "User not found") /\ UNCHANGED friends
           ELSE IF u = friend
           THEN ret' = Answer(FALSE, "Cannot add yourself as a friend") /\ UNCHANGED friends
           ELSE IF existing # {}
           THEN /\ \E e \in existing :
                     ret' = Answer(FALSE, IF e.status = "accepted" THEN "Already friends"
                                          ELSE "Friend request already pending")
                /\ UNCHANGED friends
           ELSE /\ friends.seq < MaxRequests
                /\ friends' = [rows |-> friends.rows \cup
                                   {[id |-> friends.seq + 1, user_id |-> u,
                                     friend_id |-> friend, status |-> "pending"]},
                               seq |-> friends.seq + 1]
                /\ ret' = Answer(TRUE, "Friend request sent")

accept_friend_request(request_id, u) ==
    LET Answer(ok, msg) ==
            [Returned("accept_friend_request", u, ok, msg, NULLTEXT)
                EXCEPT !.request_id = request_id]
    IN  /\ Idle
        /\ UNCHANGED <<users, games, user_scores, user_superlatives, granted, calc, procs>>
        /\ IF RequestFor(request_id, u) = {}
           THEN ret' = Answer(FALSE, "Friend request not found") /\ UNCHANGED friends
           ELSE /\ friends' = [friends EXCEPT !.rows =
                                  {IF r.id = request_id THEN [r EXCEPT !.status = "accepted"]
                                   ELSE r : r \in friends.rows}]
                /\ ret' = Answer(TRUE, "Friend request accepted")

reject_friend_request(request_id, u) ==
    LET Answer(ok, msg) ==
            [Returned("reject_friend_request", u, ok, msg, NULLTEXT)
                EXCEPT !.request_id = request_id]
    IN  /\ Idle
        /\ UNCHANGED <<users, games, user_scores, user_superlatives, granted, calc, procs>>
        /\ IF RequestFor(request_id, u) = {}
           THEN ret' = Answer(FALSE, "Friend request not found") /\ UNCHANGED friends
           ELSE /\ friends' = [friends EXCEPT !.rows = {r \in friends.rows : r.id # request_id}]
                /\ ret' = Answer(TRUE, "Friend request rejected")

remove_friend(u, friend) ==
    LET Answer(ok, msg) ==
            [Returned("remove_friend", u, ok, msg, NULLTEXT) EXCEPT !.friend_id = friend]
    IN  /\ Idle
        /\ UNCHANGED <<users, games, user_scores, user_superlatives, granted, calc, procs>>
        /\ IF Between(u, friend) = {}
           THEN ret' = Answer(FALSE, "Friendship not found") /\ UNCHANGED friends
           ELSE /\ friends' = [friends EXCEPT !.rows = friends.rows \ Between(u, friend)]
                /\ ret' = Answer(TRUE, "Friend removed")

\* get_friends reading only the rows the user sent
get_friends_SentOnly(u) ==
    {r.friend_id : r \in {x \in friends.rows : x.user_id = u /\ x.status = "accepted"}}
    \cap Users

\* the friend_user_id column of get_friends: the other end of every accepted
\* row of u that joins a users row
get_friends(u) ==
    {IF r.user_id = u THEN r.friend_id ELSE r.user_id :
        r \in {x \in friends.rows : (x.user_id = u \/ x.friend_id = u) /\ x.status = "accepted"}}
    \cap Users

\* ids a request can carry: a logged-in account outside the two followed, or
\* a name nobody has
Stranger == 3

FriendInit ==
    /\ user_scores = {}
    /\ games = GameCatalogue
    /\ users = [u \in Users |-> [review_points |-> 0, active_title |-> NULL]]
    /\ user_superlatives = EmptyBag
    /\ ret = NoCall
    /\ granted = NoGrants
    /\ calc = NoCalc
    /\ procs = <<>>
    /\ friends = NoFriends

FriendNext ==
    \/ \E u \in Users, f \in Users \cup {Stranger} : send_friend_request(u, f)
    \/ \E id \in 1..MaxRequests, u \in Users \cup {Stranger} : accept_friend_request(id, u)
    \/ \E id \in 1..MaxRequests, u \in Users \cup {Stranger} : reject_friend_request(id, u)
    \/ \E u \in Users, f \in Users \cup {Stranger} : remove_friend(u, f)

FriendSpec == FriendInit /\ [][FriendNext]_vars

----------------------------------------------------------------------------
(* Claims.  A purchase step of Spec is a step taken with no calculation    *)
(* running before or after it; the state right after a call is the one     *)
(* in which ret (purchase) or calc (unlock_superlative) still describes it.*)

AfterPurchase == Idle /\ ret.op = "purchase_random_superlative"
AfterUnlockCall == calc.called
PurchaseStep == Idle /\ Idle' /\ ret'.op = "purchase_random_superlative"
NewRecords == BagToSet(user_superlatives') \ BagToSet(user_superlatives)

\* C1 as stated: right after any single serialized unlock operation, free or
\* paid, that succeeded, the user's number of unlock records is at most
\* review_points // 5 of the balance the user then has.
C1_SlotInvariantAfterEveryUnlock ==
    /\ (AfterUnlockCall /\ calc.success) =>
          HeldCount(user_superlatives, calc.user_id)
              <= get_unlocked_superlative_slots(calc.user_id)
    /\ (AfterPurchase /\ ret.success) =>
          HeldCount(user_superlatives, ret.user_id)
              <= get_unlocked_superlative_slots(ret.user_id)

\* C1 amended: right after a successful unlock_superlative the user's number
\* of unlock records is at most review_points // 5; right after a successful
\* purchase it is at most (balance before the debit) // 5, the balance the
\* slot check of the purchase was made against.
C1_SlotInvariantBeforeDebit ==
    /\ (AfterUnlockCall /\ calc.success) =>
          HeldCount(user_superlatives, calc.user_id)
              <= get_unlocked_superlative_slots(calc.user_id)
    /\ (AfterPurchase /\ ret.success) =>
          HeldCount(user_superlatives, ret.user_id)
              <= (get_review_points(ret.user_id) + DefaultCost) \div 5

\* a purchase spent the points its slot was counted from
C1_Witness ==
    /\ AfterPurchase
    /\ ret.success
    /\ HeldCount(user_superlatives, ret.user_id) = 1
    /\ get_unlocked_superlative_slots(ret.user_id) = 0

\* C2: under serial execution the unlock ledger holds at most one record for
\* any pair (user, superlative).
C2_OneRecordPerPair ==
    \A r \in BagToSet(user_superlatives) :
        /\ CopiesIn(r, user_superlatives) = 1
        /\ \A r2 \in BagToSet(user_superlatives) :
              (r2.user_id = r.user_id /\ r2.superlative_id = r.superlative_id) => r2 = r

\* an unlock of a superlative the user holds was attempted and refused
C2_Witness ==
    /\ AfterUnlockCall
    /\ ~calc.success
    /\ calc.message = "Already unlocked"
    /\ HeldCount(user_superlatives, calc.user_id) >= 1

SecondSoloRun ==
    /\ ret.op = "calculate_solo_superlatives"
    /\ calc.op = "calculate_solo_superlatives"
    /\ calc.user_id = ret.user_id

\* C3: a calculate_solo_superlatives call that follows one for the same user
\* with nothing in between changes no unlock record and returns the empty list.
C3_SoloIdempotent ==
    [][SecondSoloRun =>
          /\ user_superlatives' = user_superlatives
          /\ calc'.op = "none" => ret'.unlocked = <<>>]_vars

\* the second run made all its calls after a first run that unlocked something
C3_Witness ==
    /\ SecondSoloRun
    /\ ret.unlocked # <<>>
    /\ calc.called
    /\ calc.todo = <<>>

\* C4: a rating write raises a user's review_points by one for each game whose
\* (user, game) pair had no non-null primary axis before it and has one after
\* it, and leaves review_points as it was in every other case.
C4_CreditOnFirstScore ==
    [][\A u \in Users :
          users'[u].review_points =
              users[u].review_points
                + Cardinality({g \in Games : ~HadAnyScore(u, g) /\ HadAnyScore(u, g)'})]_vars

\* a pair was scored twice, on two axes, and credited once
C4_Witness ==
    \E u \in Users, g \in Games :
        /\ HasRow(u, g)
        /\ Row(u, g).enjoyment_score # NULL
        /\ Row(u, g).narrative_score # NULL
        /\ granted[u][g] = 1
        /\ users[u].review_points = 1

\* C5: a purchase_random_superlative call that returns success = False leaves
\* every balance and every unlock record as it found them.
C5_FailedPurchaseChangesNothing ==
    [][(PurchaseStep /\ ~ret'.success /\ ~ret'.raised) =>
          /\ users' = users
          /\ user_superlatives' = user_superlatives]_vars

\* a purchase the user could pay for was refused for want of a slot
C5_Witness ==
    /\ AfterPurchase
    /\ ~ret.success
    /\ ret.message = "No available slots"
    /\ get_review_points(ret.user_id) >= DefaultCost

\* C6: every step of a purchase call either lowers the caller's balance by
\* exactly the cost and adds exactly one unlock record of the caller, or
\* changes neither table; a call whose INSERT fails is of the second kind.
C6_DebitAndRecordTogether ==
    [][\A p \in Procs :
          (procs[p].op = "purchase_random_superlative" /\ procs'[p] # procs[p]) =>
              LET u == procs[p].user_id
              IN  \/ /\ users' = users
                     /\ user_superlatives' = user_superlatives
                  \/ /\ users' = [users EXCEPT ![u].review_points = @ - procs[p].cost]
                     /\ Cardinality(NewRecords) = 1
                     /\ \A r \in NewRecords :
                           /\ r.user_id = u
                           /\ user_superlatives' = user_superlatives (+) SetToBag({r})]_vars

\* one purchase committed; the other one's INSERT failed on the same
\* superlative and its debit was rolled back
C6_Witness ==
    \E p \in Procs : \E q \in Procs \ {p} :
        /\ procs[p].op = "purchase_random_superlative"
        /\ procs[p].pc = "done"
        /\ procs[p].raised
        /\ procs[p].undone = procs[p].cost
        /\ procs[p].cost > 0
        /\ procs[q].op = "purchase_random_superlative"
        /\ procs[q].success
        /\ HeldCount(user_superlatives, procs[p].user_id) = 1

\* C7: a record a purchase adds for a solo superlative names a superlative
\* check_superlative_eligibility finds the user eligible for at the time of
\* the purchase, with the game that check returns.
C7_PurchasedSoloIsEligible ==
    [][(PurchaseStep /\ ret'.success) =>
          \A r \in NewRecords :
              Catalogue[r.superlative_id].category = "solo" =>
                  LET e == check_superlative_eligibility(
                               r.user_id, Catalogue[r.superlative_id].name)
                  IN  /\ e.eligible
                      /\ ~e.raised
                      /\ r.game_id = e.game_id]_vars

\* a purchase returned a solo superlative
C7_Witness ==
    /\ AfterPurchase
    /\ ret.success
    /\ \E i \in SuperlativeIds : Catalogue[i].name = ret.name /\ Catalogue[i].category = "solo"

\* C8: while only calculations run, concurrently or not, no user holds more
\* unlock records than review_points // 5.
C8_SlotsUnderConcurrency ==
    (\A p \in Procs : procs[p].op # "purchase_random_superlative") =>
        \A u \in Users :
            HeldCount(user_superlatives, u) <= get_unlocked_superlative_slots(u)

\* C9: under serial execution a record is added only by a call that found the
\* user's count below review_points // 5 at that moment, and a call adds one
\* record at most.
C9_CapacityCheckedPerAttempt ==
    [][\A u \in Users :
          HeldCount(user_superlatives', u) # HeldCount(user_superlatives, u) =>
              /\ HeldCount(user_superlatives, u) < get_unlocked_superlative_slots(u)
              /\ HeldCount(user_superlatives', u) = HeldCount(user_superlatives, u) + 1]_vars

\* a calculation filled the user's last slot and its next attempt was refused
C9_Witness ==
    /\ AfterUnlockCall
    /\ ~calc.success
    /\ calc.message = "Need more Review Points"
    /\ calc.unlocked # <<>>
    /\ HeldCount(user_superlatives, calc.user_id) = get_unlocked_superlative_slots(calc.user_id)

\* C10: the review credit is given at most once for a (user, game) pair.
C10_OneCreditPerPair ==
    \A u \in Users, g \in Games : granted[u][g] <= 1

\* C11: a purchase fails with the first of these that applies, in this order:
\* insufficient funds (balance < cost), slots exhausted (held >= balance // 5),
\* already complete (every catalogue entry held), no eligible entry; it
\* succeeds when none applies.
C11_FailurePrecedence ==
    [][(PurchaseStep /\ ret'.user_id \in Users /\ ~ret'.raised) =>
          LET u == ret'.user_id
              balance == users[u].review_points
              held == HeldCount(user_superlatives, u)
              left == {sid \in SuperlativeIds :
                          \A r \in BagToSet(user_superlatives) :
                              ~(r.user_id = u /\ r.superlative_id = sid)}
              qualifies(sid) ==
                  \/ Catalogue[sid].category = "friend"
                  \/ check_superlative_eligibility(u, Catalogue[sid].name).eligible
          IN  IF balance < DefaultCost
                  THEN ~ret'.success /\ ret'.message = "Not enough RP"
              ELSE IF held >= balance \div 5
                  THEN ~ret'.success /\ ret'.message = "No available slots"
              ELSE IF left = {}
                  THEN ~ret'.success /\ ret'.message = "You have unlocked all available titles!"
              ELSE IF \A sid \in left : ~qualifies(sid)
                  THEN ~ret'.success
                       /\ ret'.message = "You don't qualify for any remaining titles"
              ELSE ret'.success]_vars

\* insufficient funds was returned to a user whose slots were exhausted too
C11_Witness ==
    /\ AfterPurchase
    /\ ~ret.success
    /\ ret.message = "Not enough RP"
    /\ HeldCount(user_superlatives, ret.user_id) >= 1
    /\ HeldCount(user_superlatives, ret.user_id)
          >= get_unlocked_superlative_slots(ret.user_id)

UnlockCallStep == Idle /\ Idle' /\ ret'.op = "unlock_superlative"

\* C12: a single unlock_superlative call fails on an unknown name first, then
\* as 'Already unlocked' when the user holds the entry (also with the slots
\* exhausted), then as slots exhausted when held >= review_points // 5;
\* otherwise it inserts exactly one record with the given anchors.  A failing
\* call changes no record, balance or title; no call changes users.
C12_UnlockOutcomeOrder ==
    [][UnlockCallStep =>
          LET u == ret'.user_id
              held == {r \in BagToSet(user_superlatives) : r.user_id = u}
              known == \E i \in SuperlativeIds : Catalogue[i].name = ret'.name
              sid == CHOOSE i \in SuperlativeIds : Catalogue[i].name = ret'.name
              unchanged == ~ret'.success /\ user_superlatives' = user_superlatives
          IN  /\ users' = users
              /\ IF ~known
                     THEN unchanged /\ ret'.message = "Superlative not found"
                 ELSE IF \E r \in held : r.superlative_id = sid
                     THEN unchanged /\ ret'.message = "Already unlocked"
                 ELSE IF HeldCount(user_superlatives, u) >= users[u].review_points \div 5
                     THEN unchanged /\ ret'.message = "Need more Review Points"
                 ELSE /\ ret'.success
                      /\ user_superlatives' = user_superlatives (+) SetToBag({
                             [user_id |-> u, superlative_id |-> sid,
                              game_id |-> ret'.game_id, friend_id |-> ret'.friend_id]})]_vars

\* a held entry was refused as 'Already unlocked' with no slot left
C12_Witness ==
    /\ Idle
    /\ ret.op = "unlock_superlative"
    /\ ret.message = "Already unlocked"
    /\ HeldCount(user_superlatives, ret.user_id)
          >= get_unlocked_superlative_slots(ret.user_id)

\* C13: no step of calculate_solo_superlatives or calculate_friend_superlatives
\* and no unlock_superlative call changes any user's review_points, whether
\* or not it adds a record.
C13_FreePathSpendsNothing ==
    [][(~Idle \/ ~Idle' \/ UnlockCallStep) =>
          \A u \in Users : users'[u].review_points = users[u].review_points]_vars

\* a free unlock filled the second slot and the balance is still the one earned
C13_Witness ==
    /\ Idle
    /\ ret.op = "unlock_superlative"
    /\ ret.success
    /\ HeldCount(user_superlatives, ret.user_id) = 2
    /\ get_review_points(ret.user_id) >= 10

\* the solo calculation of calc.user_id has made all its calls: the entries it
\* unlocked, the entries the bulk predicates found and the user did not hold
\* when it started, and the slots that were free then
SoloRunDone == calc.op = "calculate_solo_superlatives" /\ calc.todo = <<>>
RunUnlocked == {SupId(calc.unlocked[i]) : i \in DOMAIN calc.unlocked}
RunQualifying ==
    LET a == SoloAttempts(calc.user_id)
        before == {r.superlative_id : r \in UnlocksOf(user_superlatives, calc.user_id)}
                      \ RunUnlocked
    IN  {SupId(a[i].name) : i \in DOMAIN a} \ before
RunFreeSlots ==
    get_unlocked_superlative_slots(calc.user_id)
        - (HeldCount(user_superlatives, calc.user_id) - Len(calc.unlocked))

\* C14: when a calculate_solo_superlatives call starts with k free slots and
\* the bulk predicates find games for more than k entries the user does not
\* hold, the call unlocks exactly the k of them that come first in the
\* catalogue.
C14_CatalogueOrderPriority ==
    (SoloRunDone /\ RunFreeSlots >= 0 /\ Cardinality(RunQualifying) > RunFreeSlots) =>
        RunUnlocked =
            {s \in RunQualifying :
                Cardinality({t \in RunQualifying : t < s}) < RunFreeSlots}

\* two slots were free and more than two entries qualified
C14_Witness ==
    /\ SoloRunDone
    /\ RunFreeSlots = 2
    /\ Cardinality(RunQualifying) > 2
    /\ Len(calc.unlocked) = 2

TitleStep(op) == Idle /\ Idle' /\ ret'.op = op

\* C15: set_active_title fails and changes nothing unless the user holds a
\* record for the id, and on success sets a held id; clear_active_title sets
\* the title to null; after every step (titles, calculations, purchases,
\* rating writes, reset) each user's active_title is null or the id of a
\* superlative the user holds.
C15_ActiveTitleHeld ==
    [][/\ \A u \in Users :
             \/ users'[u].active_title = NULL
             \/ \E r \in BagToSet(user_superlatives') :
                   r.user_id = u /\ r.superlative_id = users'[u].active_title
       /\ (TitleStep("set_active_title") /\ ~ret'.success) =>
             (users' = users /\ user_superlatives' = user_superlatives)
       /\ (TitleStep("set_active_title") /\ ret'.success) =>
             \E r \in BagToSet(user_superlatives) :
                 /\ r.user_id = ret'.user_id
                 /\ r.superlative_id = users'[ret'.user_id].active_title
       /\ TitleStep("clear_active_title") =>
             users'[ret'.user_id].active_title = NULL]_vars

\* a user showing a title asked for one that is not held and was refused
C15_Witness ==
    /\ Idle
    /\ ret.op = "set_active_title"
    /\ ~ret.success
    /\ users[ret.user_id].active_title # NULL

\* C16: under serial execution every user's review_points stays >= 0, and a
\* step lowers a balance only if it is a successful purchase.
C16_BalanceBounds ==
    [][\A u \in Users :
          /\ users'[u].review_points >= 0
          /\ users'[u].review_points < users[u].review_points =>
                (PurchaseStep /\ ret'.success /\ ret'.user_id = u)]_vars

\* a purchase spent the whole balance, the credited point included
C16_Witness ==
    /\ AfterPurchase
    /\ ret.success
    /\ granted[ret.user_id][1] = 1
    /\ get_review_points(ret.user_id) = 0

FriendRun == calc.op = "calculate_friend_superlatives"

\* C18: every record a calculate_friend_superlatives(user, friend) call adds
\* belongs to user and has friend_id = friend; the records, the balance and
\* the title of every other user, the friend included, stay as they are.
C18_FriendNotMirrored ==
    [][FriendRun =>
          /\ \A r \in NewRecords :
                /\ r.user_id = calc.user_id
                /\ r.friend_id = Head(calc.todo).friend_id
                /\ r.friend_id \in Users \ {calc.user_id}
          /\ \A f \in Users \ {calc.user_id} :
                /\ UnlocksOf(user_superlatives', f) = UnlocksOf(user_superlatives, f)
                /\ users'[f] = users[f]]_vars

\* the call unlocked an entry for the user; the friend has a free slot and no record
C18_Witness ==
    /\ FriendRun
    /\ calc.unlocked # <<>>
    /\ \E f \in Users \ {calc.user_id} :
          /\ get_unlocked_superlative_slots(f) >= 1
          /\ HeldCount(user_superlatives, f) = 0
          /\ \E r \in UnlocksOf(user_superlatives, calc.user_id) : r.friend_id = f

SoloNames == {Catalogue[sid].name : sid \in {x \in SuperlativeIds : Catalogue[x].category = "solo"}}

\* C19: for each of the 15 solo names and every rating set, rows with null
\* enjoyment_score, hours_played, graphics_quality, release_date or price
\* included, check_superlative_eligibility returns (False, None) or
\* (True, game_id) and does not raise.
C19_NeverRaises ==
    \A u \in Users : \A name \in SoloNames :
        LET e == check_superlative_eligibility(u, name)
        IN  /\ ~e.raised
            /\ e.eligible <=> e.game_id # NULL

\* the check path accepts "Buyer's Remorse" and no other solo name for u, u
\* holds nothing and has the default cost, and no pairing of u qualifies
OnlyBuyersRemorse(u) ==
    /\ users[u].review_points = DefaultCost
    /\ HeldCount(user_superlatives, u) = 0
    /\ {name \in SoloNames : check_superlative_eligibility(u, name).eligible}
          = {"Buyer's Remorse"}
    /\ \A name \in SoloNames : ~check_superlative_eligibility(u, name).raised
    /\ \A f \in Users \ {u} : FriendAttempts(u, f) = <<>>

\* C20: for a user with balance 10 and no unlocks whose data satisfies
\* the one solo predicate "Buyer's Remorse" and who has no qualifying friend
\* pairing, purchase_random_superlative can only unlock "Buyer's Remorse", and
\* the balance becomes 0.
C20_OnlyOneOutcome ==
    [][\A u \in Users :
          (PurchaseStep /\ ret'.user_id = u /\ OnlyBuyersRemorse(u)) =>
              /\ ret'.success
              /\ ret'.name = "Buyer's Remorse"
              /\ users'[u].review_points = 0]_vars

\* the solo names calculate_solo_superlatives attempts to unlock for u
BulkNames(u) == {SoloAttempts(u)[i].name : i \in DOMAIN SoloAttempts(u)}

\* the solo names check_superlative_eligibility accepts for u
CheckNames(u) == {name \in SoloNames : check_superlative_eligibility(u, name).eligible}

\* C21: on the same stored data, for every solo entry,
\* check_superlative_eligibility reports the user eligible if and only if
\* calculate_solo_superlatives attempts an unlock for that entry.
C21_EvaluatorsAgree == \A u \in Users : CheckNames(u) = BulkNames(u)

\* the rating rows of game g that hold a score
ScoredRows(g) == {r \in user_scores : r.game_id = g /\ PrimaryAxes(r) # {NULL}}

\* C22: check_superlative_eligibility accepts "Early Adopter" for a user only
\* if the user has a game with at least one non-null score whose rating rows
\* with non-null scores number at most 10; backlog rows neither make the user
\* eligible nor count.
C22_EarlyAdopterNeedsReview ==
    \A u \in Users :
        check_superlative_eligibility(u, "Early Adopter").eligible =>
            \E g \in Games : HadAnyScore(u, g) /\ Cardinality(ScoredRows(g)) <= 10

\* a purchase of u that reaches random.choice
DrawReached(u) == u \in Users /\ PurchaseFailure(user_superlatives, u, DefaultCost) = ""

\* C23: every friend entry the user has not unlocked is in the draw set of
\* purchase_random_superlative whatever the user's friends and ratings are,
\* and a purchase that reaches the draw stores the entry drawn: a friend entry
\* with the game anchor and the friend anchor null.
C23_FriendEntriesPurchasable ==
    [][\A u \in Users :
          (PurchaseStep /\ ret'.user_id = u /\ DrawReached(u)) =>
              /\ \A sid \in AllAvailable(user_superlatives, u) :
                    Catalogue[sid].category = "friend" =>
                       \E e \in Eligible(user_superlatives, u) : e.id = sid
              /\ ret'.success
              /\ \A r \in NewRecords :
                    Catalogue[r.superlative_id].category = "friend" =>
                       r.game_id = NULL /\ r.friend_id = NULL]_vars

\* C24: every solo record created by calculate_solo_superlatives or by
\* purchase_random_superlative has a game anchor, and the user has at least one
\* primary-axis score for that game when the record is created.
C24_SoloAnchoredToReviewedGame ==
    [][(PurchaseStep \/ calc.op = "calculate_solo_superlatives") =>
          \A r \in NewRecords :
              Catalogue[r.superlative_id].category = "solo" =>
                 /\ r.game_id # NULL
                 /\ HadAnyScore(r.user_id, r.game_id)]_vars

\* the games of u whose enjoyment score is not null
RankSet_NonNull(u) == {g \in Games : HasRow(u, g) /\ Row(u, g).enjoyment_score # NULL}

\* the games of u whose enjoyment score is neither null nor 0
RankSet(u) == {g \in Games : HasRow(u, g) /\ Row(u, g).enjoyment_score \notin {NULL, 0}}

\* seq lists the games of S once each, by score descending and, among equal
\* scores, by enjoyment_order ascending with the games lacking one last
RankedBy(u, seq, S) ==
    /\ Range(seq) = S
    /\ Len(seq) = Cardinality(S)
    /\ \A i, j \in DOMAIN seq :
          i < j =>
             LET a == Row(u, seq[i])
                 b == Row(u, seq[j])
             IN  \/ a.enjoyment_score > b.enjoyment_score
                 \/ /\ a.enjoyment_score = b.enjoyment_score
                    /\ \/ b.enjoyment_order = NULL
                       \/ a.enjoyment_order # NULL /\ a.enjoyment_order <= b.enjoyment_order

\* the #1 game and the top games the predicates read come from the ranking
ConsumersUse(u, S) ==
    /\ check_superlative_eligibility(u, "Don't Make Them Like They Used To").eligible =>
          /\ Ranked(u) # <<>>
          /\ check_superlative_eligibility(u, "Don't Make Them Like They Used To").game_id
                = Ranked(u)[1]
    /\ \A name \in {"Small Business Supporter", "Get What You Pay For"} :
          check_superlative_eligibility(u, name).eligible =>
             check_superlative_eligibility(u, name).game_id \in S

C26_FriendshipSymmetric ==
    \A a \in Users :
        /\ a \notin get_friends(a)
        /\ \A b \in Users : b \in get_friends(a) <=> a \in get_friends(b)

\* an accepted request: each of the two users lists the other
C26_Witness ==
    /\ ret.op = "accept_friend_request"
    /\ ret.success
    /\ \E a \in Users : \E b \in Users \ {a} :
          b \in get_friends(a) /\ a \in get_friends(b)

DecisionStep == ret'.op \in {"accept_friend_request", "reject_friend_request"}

\* C27: a row becomes 'accepted', or is deleted by reject, only in a call made
\* with the id of the row's recipient; accept and reject called by anyone else
\* return 'Friend request not found' and change nothing; at most one row
\* exists per unordered pair of users.
C27_OnlyRecipientDecides ==
    [][/\ \A r \in friends.rows :
            /\ (r.status = "pending" /\ [r EXCEPT !.status = "accepted"] \in friends'.rows) =>
                  /\ ret'.op = "accept_friend_request"
                  /\ ret'.success
                  /\ ret'.request_id = r.id
                  /\ ret'.user_id = r.friend_id
            /\ (ret'.op = "reject_friend_request" /\ r \notin friends'.rows) =>
                  /\ ret'.success
                  /\ ret'.request_id = r.id
                  /\ ret'.user_id = r.friend_id
       /\ (DecisionStep /\ \A r \in friends.rows :
                              r.id = ret'.request_id => r.friend_id # ret'.user_id) =>
             /\ ~ret'.success
             /\ ret'.message = "Friend request not found"
             /\ friends' = friends
       /\ \A a, b \in Users : Cardinality(Between(a, b)') <= 1]_vars

\* the sender tried to accept their own pending request, which is still pending
C27_Witness ==
    /\ ret.op = "accept_friend_request"
    /\ ~ret.success
    /\ \E r \in friends.rows :
          /\ r.id = ret.request_id
          /\ r.user_id = ret.user_id
          /\ r.status = "pending"

\* C28: after any sequence of set_user_score and delete_user_score calls, each
\* game's stored num_ratings equals the number of its rating rows whose
\* enjoyment_score is not null.
C28_RatingCountInStep ==
    \A g \in Games :
        games[g].num_ratings =
            Cardinality({r \in user_scores : r.game_id = g /\ r.enjoyment_score # NULL})

\* the superlative process p is about to insert for its user, NULL otherwise
Inserting(p) ==
    IF procs[p].pc = "u_insert" THEN SupId(Head(procs[p].todo).name)
    ELSE IF procs[p].pc = "p_insert" THEN procs[p].chosen.id
    ELSE NULL

\* C29: when interleaved unlock operations of one user both pass the
\* already-unlocked check for a definition, the INSERT that comes second fails
\* on UNIQUE(user_id, superlative_id): no (user, definition) pair is ever
\* stored twice, and a purchase whose INSERT fails keeps no debit.
C29_UniqueUnderConcurrency ==
    [][/\ \A r \in BagToSet(user_superlatives') :
            /\ CopiesIn(r, user_superlatives') = 1
            /\ \A r2 \in BagToSet(user_superlatives') :
                  (r2.user_id = r.user_id /\ r2.superlative_id = r.superlative_id) => r2 = r
       /\ \A p \in Procs :
            (/\ Inserting(p) # NULL
             /\ procs'[p] # procs[p]
             /\ ~WriteLocked \/ procs[p].pc = "p_insert"
             /\ AlreadyUnlocked(user_superlatives, procs[p].user_id, Inserting(p))) =>
                /\ user_superlatives' = user_superlatives
                /\ users' = users
                /\ procs[p].pc = "p_insert" =>
                      /\ procs'[p].pc = "done"
                      /\ procs'[p].raised
                      /\ ~procs'[p].success
                      /\ procs'[p].debit = 0
                      /\ procs'[p].undone = procs[p].cost]_vars

\* a calculation unlocked the entry a purchase had drawn; the purchase's INSERT
\* failed and its debit was undone
C29_Witness ==
    \E p \in Procs : \E q \in Procs \ {p} :
        /\ procs[p].op = "purchase_random_superlative"
        /\ procs[p].pc = "done"
        /\ procs[p].raised
        /\ procs[p].undone = DefaultCost
        /\ procs[q].op = "calculate_solo_superlatives"
        /\ procs[q].user_id = procs[p].user_id
        /\ \E i \in DOMAIN procs[q].unlocked :
              SupId(procs[q].unlocked[i]) = procs[p].chosen.id
        /\ \A r \in UnlocksOf(user_superlatives, procs[p].user_id) :
              CopiesIn(r, user_superlatives) = 1

\* C30: when two purchase_random_superlative calls of one user interleave
\* statement by statement, the user's review_points never becomes negative.
C30_NoOverdraft == \A u \in Users : users[u].review_points >= 0

====
